---- MODULE Spec2Model ----
(***************************************************************************)
(* A model of the tag readers of @missingcore/audio-metadata: the byte     *)
(* utilities (Buffer), the buffered FileReader, the ID3v1, ID3v2, FLAC and *)
(* MP4 readers, and the dispatch by extension (getAudioMetadata,           *)
(* readMP3Metadata).                                                       *)
(*                                                                         *)
(* Bytes are the integers 0..255.  A JavaScript string is the sequence of  *)
(* its UTF-16 code units.  A JavaScript value is a record tagged by t:     *)
(* Undefined, Str(s) or a number.  A number is kept exactly as             *)
(* (sign, mantissa, scale): the value is +/- m / 10^k.                     *)
(***************************************************************************)
EXTENDS Integers, Sequences, FiniteSets, TLC

VARIABLES
  uri,           \* the URI handed to getAudioMetadata (a string: code units)
  file,          \* the bytes of the file behind the URI
  wantedTags,    \* FileReader.wantedTags / ID3v2Reader.wantedKeys
  pc,            \* the position of the (single threaded) extraction
  buffer,        \* Buffer.#buffer: the loaded window
  cursor,        \* Buffer.#cursor
  filePosition,  \* FileReader.filePosition
  dataSize,      \* FileReader.dataSize
  finished,      \* FileReader.finished
  tags,          \* FileReader.tags: the keys assigned so far and their values
  frames,        \* ID3v2Reader.frames, in insertion order: <<frameId, value>>
  version,       \* ID3v2Reader.version / ID3v1Reader.version
  unsynch,       \* ID3v2Reader.unsynch
  xHeader,       \* ID3v2Reader.xHeader
  majorBrand,    \* MP4Reader.majorBrand
  minorVersion,  \* MP4Reader.minorVersion
  locals,        \* the local variables of a method whose loop is under way
  reads,         \* the file-provider reads issued so far: <<length, position>>
  reader,        \* the reader the dispatcher constructed, with its location
  result,        \* what the extraction resolved or rejected with
  suspended,     \* the other reader instance, its fields kept while it awaits
  interleaved    \* whether the reads of two instances have interleaved

vars == <<uri, file, wantedTags, pc, buffer, cursor, filePosition, dataSize,
          finished, tags, frames, version, unsynch, xHeader, majorBrand,
          minorVersion, locals, reads, reader, result, suspended, interleaved>>

\* The fields of the reader object.
Fields == <<buffer, cursor, filePosition, dataSize, finished, tags, frames,
            version, unsynch, xHeader, majorBrand, minorVersion, locals, reads>>

-----------------------------------------------------------------------------
(* JavaScript values *)

Undefined == [t |-> "undefined"]
Str(s) == [t |-> "string", s |-> s]
Num(neg, m, k) == [t |-> "number", neg |-> neg, m |-> m, k |-> k]
NaN == [t |-> "NaN"]

Min(a, b) == IF a < b THEN a ELSE b
Max(a, b) == IF a > b THEN a ELSE b

\* 2^0 .. 2^30
PowersOfTwo ==
  <<1, 2, 4, 8, 16, 32, 64, 128, 256, 512, 1024, 2048, 4096, 8192, 16384,
    32768, 65536, 131072, 262144, 524288, 1048576, 2097152, 4194304, 8388608,
    16777216, 33554432, 67108864, 134217728, 268435456, 536870912, 1073741824>>
Pow2(e) == PowersOfTwo[e + 1]

-----------------------------------------------------------------------------
(* Buffer: the static byte utilities *)

\* byte.toString(2).padStart(8, '0'): the eight bits, most significant first.
byteToBinary(byte) == [i \in 1..8 |-> (byte \div Pow2(8 - i)) % 2]

\* parseInt(binary.slice(start, start + length), 2)
RECURSIVE BinaryValue(_)
BinaryValue(bits) ==
  IF bits = <<>> THEN 0
  ELSE 2 * BinaryValue(SubSeq(bits, 1, Len(bits) - 1)) + bits[Len(bits)]

readBitsInByte(byte, start, length) ==
  BinaryValue(SubSeq(byteToBinary(byte), start + 1, Min(8, start + length)))

\* The set of bit positions (0 = least significant) of a 32-bit word that
\* `byte << shift` sets; JavaScript takes the shift count modulo 32 and drops
\* the bits shifted out of the word.
ShiftLeftBits(byte, shift) ==
  LET s == shift % 32
  IN {i + s : i \in {j \in 0..7 : (byte \div Pow2(j)) % 2 = 1}} \cap (0..31)

\* The signed value of the 32-bit word with exactly the bits of S set.
RECURSIVE SumOfBits(_)
SumOfBits(S) ==
  IF S = {} THEN 0
  ELSE LET i == CHOOSE j \in S : TRUE IN Pow2(i) + SumOfBits(S \ {i})

Int32Of(S) ==
  LET low == SumOfBits(S \ {31})
  IN IF 31 \in S THEN (low - 2147483647) - 1 ELSE low

\* The mutation of bytesToInt: every byte is shifted by a whole byte,
\* whatever bitsUsed says.
bytesToIntByteWide(bytes, bitsUsed, bigEndian) ==
  LET n == Len(bytes)
      at(idx) == IF bigEndian THEN bytes[n - idx] ELSE bytes[idx + 1]
  IN Int32Of(UNION {ShiftLeftBits(at(idx), idx * 8) : idx \in 0..(n - 1)})

\* bytesCpy.reduce((num, byte, idx) => (num |= byte << (idx * bitsUsed)), 0)
\* after reversing the bytes when bigEndian.
bytesToInt(bytes, bitsUsed, bigEndian) ==
  LET n == Len(bytes)
      at(idx) == IF bigEndian THEN bytes[n - idx] ELSE bytes[idx + 1]
  IN Int32Of(UNION {ShiftLeftBits(at(idx), idx * bitsUsed) : idx \in 0..(n - 1)})

\* _bytesToStr: the code units up to the first 0.
RECURSIVE bytesToStr(_)
bytesToStr(bytes) ==
  IF bytes = <<>> \/ Head(bytes) = 0 THEN <<>>
  ELSE <<Head(bytes)>> \o bytesToStr(Tail(bytes))

\* _getDoubleBytes: (bytes[i + offset1] << 8) | bytes[i + offset2]; a byte
\* missing at the end of an odd-length input reads as undefined, i.e. 0.
getDoubleBytes(bytes, isBigEndian) ==
  LET at(i) == IF i <= Len(bytes) THEN bytes[i] ELSE 0
  IN [j \in 1..((Len(bytes) + 1) \div 2) |->
        IF isBigEndian THEN at(2 * j - 1) * 256 + at(2 * j)
        ELSE at(2 * j) * 256 + at(2 * j - 1)]

\* TextDecoder().decode over the single-byte (ASCII) range; any other byte
\* decodes here to U+FFFD.
Utf8Decode(bytes) ==
  [i \in 1..Len(bytes) |-> IF bytes[i] < 128 THEN bytes[i] ELSE 65533]

\* '.' of a JavaScript regular expression matches no line terminator.
IsLineTerminator(c) == c \in {10, 13, 8232, 8233}

\* str.replace(/\0.*$/g, ''): cut at the first NUL that no line terminator
\* follows.
StripNulToEnd(str) ==
  LET cuts == {i \in 1..Len(str) :
                 /\ str[i] = 0
                 /\ \A j \in (i + 1)..Len(str) : ~IsLineTerminator(str[j])}
  IN IF cuts = {} THEN str
     ELSE SubSeq(str, 1, (CHOOSE i \in cuts : \A j \in cuts : i <= j) - 1)

\* Buffer.bytesToString(bytes, encoding)
bytesToString(bytes, encoding) ==
  CASE encoding = 1 ->
         LET isBE == Len(bytes) >= 2 /\ bytes[1] = 254 /\ bytes[2] = 255
         IN bytesToStr(getDoubleBytes(SubSeq(bytes, 3, Len(bytes)), isBE))
    [] encoding = 2 -> bytesToStr(getDoubleBytes(bytes, TRUE))
    [] encoding = 3 -> StripNulToEnd(Utf8Decode(bytes))
    [] OTHER -> bytesToStr(bytes)

\* The base64 alphabet: A-Z, a-z, 0-9, '+', '/'.
B64Char(i) ==
  IF i < 26 THEN 65 + i
  ELSE IF i < 52 THEN 97 + (i - 26)
  ELSE IF i < 62 THEN 48 + (i - 52)
  ELSE IF i = 62 THEN 43 ELSE 47

B64Val(c) ==
  IF c >= 65 /\ c <= 90 THEN c - 65
  ELSE IF c >= 97 /\ c <= 122 THEN c - 97 + 26
  ELSE IF c >= 48 /\ c <= 57 THEN c - 48 + 52
  ELSE IF c = 43 THEN 62
  ELSE IF c = 47 THEN 63 ELSE 0

\* btoa over the bytes: three bytes to four characters, '=' (61) padded.
bytesToBase64(bytes) ==
  LET n == Len(bytes)
      at(i) == IF i <= n THEN bytes[i] ELSE 0
      quad(j) ==
        LET b1 == at(3 * j - 2)
            b2 == at(3 * j - 1)
            b3 == at(3 * j)
        IN << B64Char(b1 \div 4),
              B64Char((b1 % 4) * 16 + (b2 \div 16)),
              IF 3 * j - 1 > n THEN 61 ELSE B64Char((b2 % 16) * 4 + (b3 \div 64)),
              IF 3 * j > n THEN 61 ELSE B64Char(b3 % 64) >>
  IN [i \in 1..(4 * ((n + 2) \div 3)) |-> quad((i + 3) \div 4)[((i - 1) % 4) + 1]]

\* Uint8Array.from(atob(base64), c => c.charCodeAt(0))
base64ToBuffer(base64) ==
  LET n == Len(base64)
      pad == Cardinality({i \in 1..n : base64[i] = 61})
      v(i) == B64Val(base64[i])
      byte(k) ==
        LET j == 4 * ((k - 1) \div 3)
            pos == (k - 1) % 3
        IN IF pos = 0 THEN v(j + 1) * 4 + (v(j + 2) \div 16)
           ELSE IF pos = 1 THEN (v(j + 2) % 16) * 16 + (v(j + 3) \div 4)
           ELSE (v(j + 3) % 4) * 64 + v(j + 4)
  IN [k \in 1..((n \div 4) * 3 - pad) |-> byte(k)]

-----------------------------------------------------------------------------
(* The file provider (libs/fs): `length` bytes from `position`, fewer when  *)
(* the file ends first, as base64.                                         *)

ProviderRead(f, length, position) ==
  IF position < 0 \/ length <= 0 THEN <<>>
  ELSE bytesToBase64(SubSeq(f, position + 1, Min(Len(f), position + length)))

-----------------------------------------------------------------------------
(* The reader object.  Its methods are operators from the object (a record *)
(* of its fields) to the object after the call, or to [s, chunk / value].  *)
(* `thrown` is the message of the error thrown so far ("" when none).      *)

Self ==
  [buffer |-> buffer, cursor |-> cursor, filePosition |-> filePosition,
   dataSize |-> dataSize, finished |-> finished, tags |-> tags,
   frames |-> frames, version |-> version, unsynch |-> unsynch,
   xHeader |-> xHeader, majorBrand |-> majorBrand,
   minorVersion |-> minorVersion, locals |-> locals, reads |-> reads,
   thrown |-> <<>>]

Become(s) ==
  /\ buffer' = s.buffer
  /\ cursor' = s.cursor
  /\ filePosition' = s.filePosition
  /\ dataSize' = s.dataSize
  /\ finished' = s.finished
  /\ tags' = s.tags
  /\ frames' = s.frames
  /\ version' = s.version
  /\ unsynch' = s.unsynch
  /\ xHeader' = s.xHeader
  /\ majorBrand' = s.majorBrand
  /\ minorVersion' = s.minorVersion
  /\ locals' = s.locals
  /\ reads' = s.reads

Throw(s, message) == [s EXCEPT !.thrown = message]
HasThrown(s) == s.thrown # <<>>

\* Buffer.eof
eof(s) == s.cursor >= Len(s.buffer)

\* FileReader.#areWeDone
areWeDone(s) == IF eof(s) THEN [s EXCEPT !.finished = TRUE] ELSE s

\* Buffer.move: the cursor is capped at the length of the window only.
move(s, offset) ==
  [s EXCEPT !.cursor =
     IF s.cursor + offset > Len(s.buffer) THEN Len(s.buffer) ELSE s.cursor + offset]

\* FileReader.initDataFrom
initDataFrom(s, f, size, offset) ==
  [s EXCEPT !.buffer = base64ToBuffer(ProviderRead(f, size, offset)),
            !.cursor = 0,
            !.dataSize = size,
            !.filePosition = offset + size,
            !.finished = FALSE,
            !.reads = Append(@, <<size, offset>>)]

\* FileReader.read: the next `length` bytes, or those left in the window
\* when they are fewer, and then `finished` is set.
read(s, length) ==
  LET n == Max(0, Min(length, Len(s.buffer) - s.cursor))
  IN [s |-> [s EXCEPT !.cursor = @ + n,
                      !.finished = @ \/ n < length],
      chunk |-> SubSeq(s.buffer, s.cursor + 1, s.cursor + n)]

\* FileReader.readTilNull
RECURSIVE readTilNullLoop(_, _)
readTilNullLoop(s, chunk) ==
  IF chunk # <<>> /\ chunk[Len(chunk)] = 0 THEN [s |-> s, chunk |-> chunk]
  ELSE IF eof(s) THEN [s |-> areWeDone(s), chunk |-> chunk]
  ELSE readTilNullLoop([s EXCEPT !.cursor = @ + 1],
                       Append(chunk, s.buffer[s.cursor + 1]))

readTilNull(s) == readTilNullLoop(s, <<>>)

\* FileReader.skip
skip(s, length) == areWeDone(move(s, length))

\* Uint8Array.slice(start, end) for start, end >= 0: the bytes from index
\* start up to, not including, index end, as far as the array has them.
slice(buf, start, end) ==
  IF Min(start, Len(buf)) >= Min(end, Len(buf)) THEN <<>>
  ELSE SubSeq(buf, Min(start, Len(buf)) + 1, Min(end, Len(buf)))

\* The mutation of the splice loop: nothing is dropped.
unsynchDataUntouched(data, i) == data

\* The splice loop of unsynchBuffer: drop the 0x00 that follows a 0xFF.
RECURSIVE unsynchData(_, _)
unsynchData(data, i) ==
  IF i >= Len(data) THEN data
  ELSE IF data[i] = 255 /\ data[i + 1] = 0
    THEN unsynchData(SubSeq(data, 1, i) \o SubSeq(data, i + 2, Len(data)), i + 1)
    ELSE unsynchData(data, i + 1)

\* FileReader.unsynchBuffer(offset, length): `length` 0 stands for an absent
\* length as well (`length || this.buffer.length - offset`).
unsynchBuffer(s, offset, length) ==
  LET size == IF length # 0 THEN length ELSE Len(s.buffer) - offset
      data == unsynchData(slice(s.buffer, offset, offset + size), 1)
  IN [s |-> [s EXCEPT !.buffer = slice(s.buffer, 0, offset) \o data
                                   \o slice(s.buffer, offset + size, Len(s.buffer)),
                      !.cursor = offset],
      value |-> Len(data)]

-----------------------------------------------------------------------------
(* Strings of the program, as code units *)

ID3 == <<73, 68, 51>>  \* "ID3"
TAG == <<84, 65, 71>>  \* "TAG"
DI3 == <<51, 68, 73>>  \* "3DI"
TAL == <<84, 65, 76>>
TP1 == <<84, 80, 49>>
TT2 == <<84, 84, 50>>
TRK == <<84, 82, 75>>
TYE == <<84, 89, 69>>
PIC == <<80, 73, 67>>
TALB == <<84, 65, 76, 66>>
TPE1 == <<84, 80, 69, 49>>
TIT2 == <<84, 73, 84, 50>>
TRCK == <<84, 82, 67, 75>>
TYER == <<84, 89, 69, 82>>
TDRC == <<84, 68, 82, 67>>
APIC == <<65, 80, 73, 67>>
PNG == <<80, 78, 71>>
ImagePng == <<105, 109, 97, 103, 101, 47, 112, 110, 103>>  \* "image/png"
ImageJpeg == <<105, 109, 97, 103, 101, 47, 106, 112, 101, 103>>  \* "image/jpeg"
DataPrefix == <<100, 97, 116, 97, 58>>  \* "data:"
Base64Infix == <<59, 98, 97, 115, 101, 54, 52, 44>>  \* ";base64,"

-----------------------------------------------------------------------------
(* String.prototype.split and Number() *)

\* str.split(sep) for a one-character separator: the segments between the
\* occurrences of sep (always at least one segment).
RECURSIVE Split(_, _)
Split(str, sep) ==
  LET hits == {i \in 1..Len(str) : str[i] = sep}
  IN IF hits = {} THEN <<str>>
     ELSE LET i == CHOOSE h \in hits : \A g \in hits : h <= g
          IN <<SubSeq(str, 1, i - 1)>> \o Split(SubSeq(str, i + 1, Len(str)), sep)

IsDigit(c) == c >= 48 /\ c <= 57
IsWhiteSpace(c) == c \in {9, 10, 11, 12, 13, 32, 160, 8232, 8233, 65279}

RECURSIVE TrimStart(_)
TrimStart(str) ==
  IF str # <<>> /\ IsWhiteSpace(Head(str)) THEN TrimStart(Tail(str)) ELSE str

RECURSIVE TrimEnd(_)
TrimEnd(str) ==
  IF str # <<>> /\ IsWhiteSpace(str[Len(str)])
    THEN TrimEnd(SubSeq(str, 1, Len(str) - 1)) ELSE str

RECURSIVE DigitsValue(_)
DigitsValue(ds) ==
  IF ds = <<>> THEN 0
  ELSE 10 * DigitsValue(SubSeq(ds, 1, Len(ds) - 1)) + (ds[Len(ds)] - 48)

\* m / 10^k without trailing zeros in the fraction.
RECURSIVE Normalise(_, _, _)
Normalise(neg, m, k) ==
  IF k > 0 /\ m % 10 = 0 THEN Normalise(neg, m \div 10, k - 1) ELSE Num(neg, m, k)

\* Number(str) for the decimal literals of StringNumericLiteral: white space
\* trimmed, "" is 0, an optional sign, digits with an optional '.'; anything
\* else is NaN.  (Exponents, radix prefixes and "Infinity" use letters and
\* are outside the strings drawn here.)
JSNumber(str) ==
  LET trimmed == TrimEnd(TrimStart(str))
      signed == trimmed # <<>> /\ Head(trimmed) \in {43, 45}
      neg == trimmed # <<>> /\ Head(trimmed) = 45
      body == IF signed THEN Tail(trimmed) ELSE trimmed
      parts == Split(body, 46)
      int == parts[1]
      frac == IF Len(parts) = 2 THEN parts[2] ELSE <<>>
      allDigits(ds) == \A i \in 1..Len(ds) : IsDigit(ds[i])
  IN IF trimmed = <<>> THEN Num(FALSE, 0, 0)
     ELSE IF /\ Len(parts) <= 2
             /\ allDigits(int) /\ allDigits(frac)
             /\ Len(int) + Len(frac) > 0
       THEN Normalise(neg, DigitsValue(int \o frac), Len(frac))
       ELSE NaN

\* The truthiness of a number: neither NaN nor +0 / -0.
Truthy(n) == n.t = "number" /\ n.m # 0

\* `valAsNum && !isNaN(valAsNum) ? valAsNum : value` with valAsNum computed
\* for `track` (the text before the first '/') and `year` (the first four
\* code units); a value that is undefined gives Number(undefined), NaN.
FormatValue(key, value) ==
  LET valAsNum ==
        IF key \notin {"track", "year"} THEN Undefined
        ELSE IF value.t # "string" THEN NaN
        ELSE IF key = "track" THEN JSNumber(Split(value.s, 47)[1])
        ELSE JSNumber(SubSeq(value.s, 1, Min(4, Len(value.s))))
  IN IF Truthy(valAsNum) THEN valAsNum ELSE value

-----------------------------------------------------------------------------
(* Errors *)

FileError(message) == [name |-> "FileError", message |-> message]
\* Reading a property of undefined, e.g. Buffer.byteToBinary(undefined).
TypeError == [name |-> "TypeError", message |-> <<>>]

-----------------------------------------------------------------------------
(* ID3v2Reader *)

FrameTypesText == {TAL, TP1, TT2, TRK, TYE, TALB, TPE1, TIT2, TRCK, TYER, TDRC}
FrameTypesPicture == {PIC, APIC}

\* FrameMetadataMap[frameId]; "undefined" for an identifier it does not hold.
FrameMetadataMap(frameId) ==
  CASE frameId \in {TAL, TALB} -> "album"
    [] frameId \in {TP1, TPE1} -> "artist"
    [] frameId \in {PIC, APIC} -> "artwork"
    [] frameId \in {TT2, TIT2} -> "name"
    [] frameId \in {TRK, TRCK} -> "track"
    [] frameId \in {TYE, TYER, TDRC} -> "year"
    [] OTHER -> "undefined"

\* this.frames[frameId] = value: a new key is added last, a key already there
\* keeps its place and takes the new value.
SetFrame(fs, frameId, value) ==
  IF \E i \in 1..Len(fs) : fs[i][1] = frameId
    THEN [i \in 1..Len(fs) |-> IF fs[i][1] = frameId THEN <<frameId, value>> ELSE fs[i]]
    ELSE Append(fs, <<frameId, value>>)

\* ID3v2Reader.processHeader
processHeader(s) ==
  LET r1 == read(s, 3)
      r2 == read(r1.s, 2)
      ver == IF r2.chunk = <<>> THEN 0 ELSE bytesToInt(<<r2.chunk[1]>>, 8, TRUE)
      r3 == read(r2.s, 1)
      flagsAsBinary == byteToBinary(r3.chunk[1])
      r4 == read(r3.s, 4)
  IN IF bytesToString(r1.chunk, 0) # ID3
       THEN Throw(r1.s, FileError(<<"Not an ID3v2 tag.">>))
     ELSE IF ver > 4
       THEN Throw([r2.s EXCEPT !.version = ver],
                  FileError(<<"ID3v2.", ver, " is not supported.">>))
     ELSE IF r3.chunk = <<>>
       THEN Throw([r3.s EXCEPT !.version = ver], TypeError)
     ELSE [r4.s EXCEPT !.version = ver,
                       !.unsynch = (flagsAsBinary[1] = 1),
                       !.xHeader = (flagsAsBinary[2] = 1),
                       !.dataSize = bytesToInt(r4.chunk, 7, TRUE)]

\* ID3v2Reader.processExtendedHeader
processExtendedHeader(s) ==
  IF ~s.xHeader THEN s
  ELSE IF s.version = 2
    THEN Throw(s, FileError(<<"Compression bit should not be set for ID3v2.2.">>))
  ELSE LET r == read(s, 4)
       IN skip(r.s, bytesToInt(r.chunk, IF s.version = 4 THEN 7 ELSE 8, TRUE))

\* ID3v2Reader.processTextFrame
processTextFrame(s, frameId, frameSize, unsync) ==
  LET u == unsynchBuffer(s, s.cursor, frameSize)
      r == IF unsync THEN read(u.s, u.value) ELSE read(s, frameSize)
      data == r.chunk
      text == IF data = <<>> THEN <<>>
              ELSE bytesToString(Tail(data), Head(data))
  IN [r.s EXCEPT !.frames = SetFrame(@, frameId, Str(text))]

\* The mutation of the picture-type test: no picture is ignored.
ignoresPictureTypeNever(pictureType) == FALSE

\* `pictureType !== 0 && pictureType !== 3`: neither `Other` nor
\* `Cover (front)`.
ignoresPictureType(pictureType) == pictureType # 0 /\ pictureType # 3

\* ID3v2Reader.processPictureFrame
processPictureFrame(s, frameSize, unsync) ==
  LET u == unsynchBuffer(s, s.cursor, frameSize)
      newFrameSize == IF unsync THEN u.value ELSE frameSize
      s1 == skip(IF unsync THEN u.s ELSE s, 1)
      fmt == read(s1, 3)
      mime == readTilNull(s1)
      s2 == IF s.version = 2 THEN fmt.s ELSE mime.s
      mimeType == IF s.version = 2
                    THEN (IF bytesToString(fmt.chunk, 0) = PNG
                            THEN ImagePng ELSE ImageJpeg)
                    ELSE bytesToString(mime.chunk, 0)
      size2 == (newFrameSize - 1)
                 - (IF s.version = 2 THEN 3 ELSE Len(mime.chunk))
      type == read(s2, 1)
      pictureType == bytesToInt(type.chunk, 8, TRUE)
      size3 == size2 - 1
      desc == readTilNull(type.s)
      pic == read(desc.s, size3 - Len(desc.chunk))
  IN IF ignoresPictureType(pictureType) THEN skip(type.s, size3)
     ELSE [pic.s EXCEPT !.frames =
             SetFrame(@, APIC,
                      Str(DataPrefix \o mimeType \o Base64Infix
                            \o bytesToBase64(pic.chunk)))]

\* The mutation of processFrame's stop test: a frame too late.
shouldStopID3v2Late(s, wanted) == Len(s.frames) > Cardinality(wanted)

\* `Object.keys(this.frames).length === this.wantedKeys.length`
shouldStopID3v2(s, wanted) == Len(s.frames) = Cardinality(wanted)

\* The mutation of the test of the frame's unsynchronisation flag: no
\* frame is refused.
refusesFrameFlagsNever(ver, tagUnsynch, flagUnsynch) == FALSE

\* `this.version === 4`, `this.unsynch` and `!frameUnsych` of processFrame:
\* the tag says every frame is unsynchronised and this frame says it is not.
refusesFrameFlags(ver, tagUnsynch, flagUnsynch) ==
  ver = 4 /\ tagUnsynch /\ ~flagUnsynch

\* ID3v2Reader.processFrame
processFrame(s, wanted) ==
  LET idLen == IF s.version = 2 THEN 3 ELSE 4
      r1 == read(s, idLen)
      frameId == bytesToString(r1.chunk, 0)
      r2 == read(r1.s, idLen)
      frameSize == bytesToInt(r2.chunk, IF s.version \in {2, 3} THEN 8 ELSE 7, TRUE)
      r3 == IF s.version > 2 THEN read(r2.s, 2) ELSE [s |-> r2.s, chunk |-> <<>>]
      badFlags == s.version = 4 /\ Len(r3.chunk) < 2
      flagUnsynch == s.version = 4 /\ ~badFlags /\ byteToBinary(r3.chunk[2])[7] = 1
      frameUnsych == flagUnsynch /\ ~s.unsynch
      isWanted == FrameMetadataMap(frameId) \in wanted
      body == IF isWanted /\ frameId \in FrameTypesText
                THEN processTextFrame(r3.s, frameId, frameSize, frameUnsych)
              ELSE IF isWanted /\ frameId \in FrameTypesPicture
                THEN processPictureFrame(r3.s, frameSize, frameUnsych)
              ELSE skip(r3.s, frameSize)
  IN IF frameId = <<>> THEN [r1.s EXCEPT !.finished = TRUE]
     ELSE IF badFlags THEN Throw(r3.s, TypeError)
     ELSE IF refusesFrameFlags(s.version, s.unsynch, flagUnsynch)
       THEN Throw(r3.s, FileError(<<"All frames in tag should have unsynchronisation, however unsynchronisation flag in frame is unset.">>))
     ELSE IF shouldStopID3v2(body, wanted)
       THEN [body EXCEPT !.finished = TRUE]
       ELSE body

\* Object.fromEntries(Object.entries(this.frames).map(...)) of getMetadata:
\* one entry per stored frame under its metadata key; of two entries with
\* the same key the later one stays.
MetadataOfFrames(fs) ==
  LET keys == {FrameMetadataMap(fs[i][1]) : i \in 1..Len(fs)}
      last(k) == CHOOSE i \in 1..Len(fs) :
                   /\ FrameMetadataMap(fs[i][1]) = k
                   /\ \A j \in 1..Len(fs) : FrameMetadataMap(fs[j][1]) = k => j <= i
  IN [k \in keys |-> FormatValue(k, fs[last(k)][2])]

-----------------------------------------------------------------------------
(* Bounds of the inputs *)

\* The largest number of frames of a drawn ID3v2 tag.
MaxFrames == 3

-----------------------------------------------------------------------------
(* Building the files the readers are run on *)

\* The bytes of n < 2^31, most or least significant first.
BigEndian(n, width) ==
  [i \in 1..width |-> IF width - i > 3 THEN 0 ELSE (n \div Pow2(8 * (width - i))) % 256]
LittleEndian(n, width) ==
  [i \in 1..width |-> IF i > 4 THEN 0 ELSE (n \div Pow2(8 * (i - 1))) % 256]
Synchsafe(n) == [i \in 1..4 |-> (n \div Pow2(7 * (4 - i))) % 128]
Zeros(n) == [i \in 1..n |-> 0]

RECURSIVE Concat(_)
Concat(seqs) == IF seqs = <<>> THEN <<>> ELSE Head(seqs) \o Concat(Tail(seqs))

SeqsUpTo(S, n) == UNION {[1..m -> S] : m \in 0..n}

\* The frames a drawn ID3v2 tag is made of.  The i-th frame of a tag carries
\* the ISO-8859-1 text of the digit i, so that every frame has its own value.
FrameKinds == {"album", "year", "date", "other"}

FrameIdOf(ver, kind) ==
  CASE kind = "album" -> IF ver = 2 THEN TAL ELSE TALB
    [] kind = "year" -> IF ver = 2 THEN TYE ELSE TYER
    [] kind = "date" -> IF ver = 2 THEN <<84, 68, 82>> ELSE TDRC
    [] OTHER -> IF ver = 2 THEN <<84, 67, 79>> ELSE <<84, 67, 79, 78>>

FrameBytes(ver, kind, i) ==
  LET payload == <<0, 48 + i>>
  IN CASE ver = 2 -> FrameIdOf(ver, kind) \o BigEndian(Len(payload), 3) \o payload
       [] ver = 3 -> FrameIdOf(ver, kind) \o BigEndian(Len(payload), 4)
                       \o <<0, 0>> \o payload
       [] OTHER -> FrameIdOf(ver, kind) \o Synchsafe(Len(payload))
                       \o <<0, 0>> \o payload

ID3v2TagBytes(ver, kinds, pad) ==
  LET body == Concat([i \in 1..Len(kinds) |-> FrameBytes(ver, kinds[i], i)])
                \o Zeros(pad)
  IN ID3 \o <<ver, 0, 0>> \o Synchsafe(Len(body)) \o body

\* What follows a tag in an .mp3 file: the start of an MPEG frame.
AudioBytes == <<255, 251, 144, 0>>

-----------------------------------------------------------------------------
(* The state before a reader is constructed *)

Fresh ==
  /\ buffer = <<>>
  /\ cursor = 0
  /\ filePosition = 0
  /\ dataSize = 0
  /\ finished = FALSE
  /\ tags = <<>>
  /\ frames = <<>>
  /\ version = 0
  /\ unsynch = FALSE
  /\ xHeader = FALSE
  /\ majorBrand = <<>>
  /\ minorVersion = 0
  /\ locals = <<>>
  /\ reads = <<>>
  /\ result = Undefined
  /\ suspended = <<>>
  /\ interleaved = FALSE

\* What no method of a reader assigns: its arguments, and what is not its own.
Inputs == <<uri, file, wantedTags, reader, suspended, interleaved>>

\* An error thrown inside a reader rejects the whole extraction.
Reject(s) ==
  /\ pc' = "rejected"
  /\ result' = s.thrown

-----------------------------------------------------------------------------
(* ID3v2Reader.getMetadata, a step for each part between which the frame    *)
(* loop can be observed                                                    *)

\* Where the tag starts.  The reader of src/ reads the tag at the start of
\* the file; a tag at the end of the file, or before an ID3v1 tag, is found
\* from the size in its footer.
TagOffset(location, f) ==
  LET end == IF location = "pre-v1" THEN Len(f) - 128 ELSE Len(f)
      size == bytesToInt(SubSeq(f, end - 3, end), 7, TRUE)
  IN IF location = "start" THEN 0 ELSE end - 10 - size - 10

\* lines 79-91: load the whole tag, read its header, undo a tag-level
\* unsynchronisation, skip the extended header.
ID3v2GetMetadata ==
  /\ pc = "ID3v2Reader.getMetadata"
  /\ LET offset == TagOffset(reader[2], file)
         data == base64ToBuffer(ProviderRead(file, 4, offset + 6))
         tagSize == 10 + bytesToInt(data, 7, TRUE)
         s0 == [Self EXCEPT !.reads = Append(@, <<4, offset + 6>>)]
         s1 == processHeader(initDataFrom(s0, file, tagSize, offset))
         s2 == IF HasThrown(s1) \/ ~s1.unsynch THEN s1
               ELSE unsynchBuffer(s1, 10, 0).s
         s3 == IF HasThrown(s2) THEN s2 ELSE processExtendedHeader(s2)
     IN \E s \in {s3} :
        /\ Become(s)
        /\ IF HasThrown(s) THEN Reject(s)
           ELSE pc' = "ID3v2Reader.processFrame" /\ result' = result
  /\ UNCHANGED Inputs

\* line 92: one turn of `while (!this.finished) this.processFrame()`.
ID3v2ProcessFrame ==
  /\ pc = "ID3v2Reader.processFrame"
  /\ ~finished
  /\ \E s \in {processFrame(Self, wantedTags)} :
        /\ Become(s)
        /\ IF HasThrown(s) THEN Reject(s) ELSE UNCHANGED <<pc, result>>
  /\ UNCHANGED Inputs

\* lines 95-108: the loop is over, the record is returned.
ID3v2Return ==
  /\ pc = "ID3v2Reader.processFrame"
  /\ finished
  /\ pc' = "returned"
  /\ result' = [format |-> <<"ID3v2.", version>>,
                metadata |-> MetadataOfFrames(frames)]
  /\ UNCHANGED <<Fields, Inputs>>

\* The requested sets: of the keys a drawn tag can hold, and of one it cannot.
WantedID3v2 == {{}, {"album"}, {"year"}, {"album", "year"}, {"album", "artist"}}

InitID3v2 ==
  /\ \E ver \in {2, 3, 4}, kinds \in SeqsUpTo(FrameKinds, MaxFrames), pad \in {0, 2} :
       file = ID3v2TagBytes(ver, kinds, pad) \o AudioBytes
  /\ wantedTags \in WantedID3v2
  /\ uri = <<>>
  /\ reader = <<"ID3v2Reader", "start">>
  /\ pc = "ID3v2Reader.getMetadata"
  /\ Fresh

NextID3v2 == ID3v2GetMetadata \/ ID3v2ProcessFrame \/ ID3v2Return

SpecID3v2 == InitID3v2 /\ [][NextID3v2]_vars

-----------------------------------------------------------------------------
(* FileReader: what the readers built on `tags` share *)

\* FileReader.formatMetadata: every wanted key, undefined unless `tags` holds
\* it; the keys of `tags` that are not wanted are dropped.
formatMetadata(ts, wanted) ==
  [k \in wanted |-> IF k \in DOMAIN ts THEN FormatValue(k, ts[k]) ELSE Undefined]

\* The mutation of shouldFinishEarly: the count of the keys is never enough.
shouldFinishEarlyNever(ts, wanted) == FALSE

\* FileReader.shouldFinishEarly
shouldFinishEarly(ts, wanted) == Cardinality(DOMAIN ts) = Cardinality(wanted)

\* this.tags[key] = value
SetTag(ts, key, value) ==
  [k \in DOMAIN ts \cup {key} |-> IF k = key THEN value ELSE ts[k]]

-----------------------------------------------------------------------------
(* FLACReader *)

fLaC == <<102, 76, 97, 67>>
ALBUM == <<65, 76, 66, 85, 77>>
ARTIST == <<65, 82, 84, 73, 83, 84>>
TITLE == <<84, 73, 84, 76, 69>>
TRACKNUMBER == <<84, 82, 65, 67, 75, 78, 85, 77, 66, 69, 82>>
DATE == <<68, 65, 84, 69>>
ORIGINALDATE == <<79, 82, 73, 71, 73, 78, 65, 76, 68, 65, 84, 69>>
ORIGINALYEAR == <<79, 82, 73, 71, 73, 78, 65, 76, 89, 69, 65, 82>>

\* VCFNMetadataMap[fieldName] ?? ''
VCFNMetadataMap(fieldName) ==
  CASE fieldName = ALBUM -> "album"
    [] fieldName = ARTIST -> "artist"
    [] fieldName = TITLE -> "name"
    [] fieldName = TRACKNUMBER -> "track"
    [] fieldName \in {DATE, ORIGINALDATE, ORIGINALYEAR} -> "year"
    [] OTHER -> ""

\* FLACReader.initialize
initializeFLAC(s, f) ==
  LET r == read(initDataFrom(s, f, 4, 0), 4)
  IN IF bytesToString(r.chunk, 0) # fLaC
       THEN Throw(r.s, FileError(<<"Does not follow proper FLAC format.">>))
       ELSE r.s

\* FLACReader.processBlockHeader; a header read past the end of the file
\* has no first byte, and byteToBinary(undefined) throws.
processBlockHeader(s) ==
  LET r1 == read(s, 1)
      r2 == read(r1.s, 3)
  IN IF r1.chunk = <<>>
       THEN [s |-> Throw(r1.s, TypeError), isLast |-> FALSE, type |-> 0, length |-> 0]
       ELSE [s |-> r2.s,
             isLast |-> readBitsInByte(r1.chunk[1], 0, 1) = 1,
             type |-> readBitsInByte(r1.chunk[1], 1, 7),
             length |-> bytesToInt(r2.chunk, 8, TRUE)]

\* The mutation of the test of line 302: an entry is stored whatever `tags`
\* holds.
keepsExistingValueNever(ts, metadataKey) == TRUE

\* `this.tags[metadataKey] === undefined` of processVorbisCommentBlockData
keepsExistingValue(ts, metadataKey) ==
  metadataKey \notin DOMAIN ts \/ ts[metadataKey] = Undefined

\* One turn of the loop of processVorbisCommentBlockData (lines 293-304).
processVorbisComment(s, wanted) ==
  LET r1 == read(s, 4)
      commentLength == bytesToInt(r1.chunk, 8, FALSE)
      r2 == read(r1.s, commentLength)
      comment == Split(bytesToString(r2.chunk, 3), 61)
      fieldName == comment[1]
      value == IF Len(comment) >= 2 THEN Str(comment[2]) ELSE Undefined
      metadataKey == VCFNMetadataMap(fieldName)
      isWanted == metadataKey \in wanted
  IN IF isWanted /\ keepsExistingValue(r2.s.tags, metadataKey)
       THEN [r2.s EXCEPT !.tags = SetTag(@, metadataKey, value)]
       ELSE r2.s

\* FLACReader.processPictureBlockData
processPictureBlockData(s, size) ==
  LET type == read(s, 4)
      pictureType == bytesToInt(type.chunk, 8, TRUE)
      mimeLen == read(type.s, 4)
      mime == read(mimeLen.s, bytesToInt(mimeLen.chunk, 8, TRUE))
      descLen == read(mime.s, 4)
      s1 == skip(skip(descLen.s, bytesToInt(descLen.chunk, 8, TRUE)), 16)
      picLen == read(s1, 4)
      pic == read(picLen.s, bytesToInt(picLen.chunk, 8, TRUE))
  IN IF ignoresPictureType(pictureType) THEN skip(type.s, size - 4)
     ELSE [pic.s EXCEPT !.tags =
             SetTag(@, "artwork",
                    Str(DataPrefix \o bytesToString(mime.chunk, 0) \o Base64Infix
                          \o bytesToBase64(pic.chunk)))]

-----------------------------------------------------------------------------
(* FLACReader.getMetadata, a step for each block and for each comment *)

FLACInitialize ==
  /\ pc = "FLACReader.getMetadata"
  /\ \E s \in {initializeFLAC(Self, file)} :
        /\ Become(s)
        /\ IF HasThrown(s) THEN Reject(s)
           ELSE pc' = "FLACReader.processBlock" /\ result' = result
  /\ UNCHANGED Inputs

\* lines 237-248 of processBlock.  For a VORBIS_COMMENT block the step ends
\* where the loop over its comments starts (lines 287-290), with the loop's
\* variables in `locals`; for any other block lines 253-254 follow at once.
processBlock(s, f, wanted) ==
  LET h == processBlockHeader(initDataFrom(s, f, 4, s.filePosition))
      s2 == initDataFrom(h.s, f, h.length, h.s.filePosition)
      vendor == read(s2, 4)
      count == read(skip(vendor.s, bytesToInt(vendor.chunk, 8, FALSE)), 4)
      body == IF h.type = 6 /\ "artwork" \in wanted
                THEN processPictureBlockData(s2, h.length)
                ELSE skip(s2, h.length)
  IN IF HasThrown(h.s) THEN h.s
     ELSE IF h.type = 4
       THEN [count.s EXCEPT !.locals =
               [isLast |-> h.isLast, i |-> 0,
                commentListLength |-> bytesToInt(count.chunk, 8, FALSE)]]
     ELSE [body EXCEPT !.finished = h.isLast \/ shouldFinishEarly(body.tags, wanted)]

FLACProcessBlock ==
  /\ pc = "FLACReader.processBlock"
  /\ ~finished
  /\ \E s \in {processBlock(Self, file, wantedTags)} :
        /\ Become(s)
        /\ IF HasThrown(s) THEN Reject(s)
           ELSE /\ pc' = IF s.locals = <<>> THEN pc
                         ELSE "FLACReader.processVorbisCommentBlockData"
                /\ result' = result
  /\ UNCHANGED Inputs

\* lines 292-305: one comment.
FLACProcessComment ==
  /\ pc = "FLACReader.processVorbisCommentBlockData"
  /\ locals.i < locals.commentListLength
  /\ \E s \in {processVorbisComment(Self, wantedTags)} :
        Become([s EXCEPT !.locals.i = @ + 1])
  /\ UNCHANGED <<pc, result, Inputs>>

\* lines 253-254, after the last comment.
FLACEndOfComments ==
  /\ pc = "FLACReader.processVorbisCommentBlockData"
  /\ locals.i >= locals.commentListLength
  /\ Become([Self EXCEPT
               !.finished = locals.isLast \/ shouldFinishEarly(tags, wantedTags),
               !.locals = <<>>])
  /\ pc' = "FLACReader.processBlock"
  /\ UNCHANGED <<result, Inputs>>

\* lines 211-214
FLACReturn ==
  /\ pc = "FLACReader.processBlock"
  /\ finished
  /\ pc' = "returned"
  /\ result' = [format |-> <<"FLAC">>,
                metadata |-> formatMetadata(tags, wantedTags)]
  /\ UNCHANGED <<Fields, Inputs>>

\* The largest number of comments of a drawn VORBIS_COMMENT block.
MaxComments == 3

\* The comments a drawn block is made of: FIELD=value entries, the value of
\* the i-th entry being the digit i, and an entry that has no '='.
CommentKinds == {"artist", "bare", "date", "originaldate", "title"}

CommentText(kind, i) ==
  CASE kind = "artist" -> ARTIST \o <<61, 48 + i>>
    [] kind = "album" -> ALBUM \o <<61, 48 + i>>
    [] kind = "artist=" -> ARTIST \o <<61, 48 + i, 61, 48 + i>>
    [] kind = "date=" -> DATE \o <<61, 48 + i, 61>>
    [] kind = "artist0" -> ARTIST \o <<61>>
    [] kind = "bare" -> ARTIST
    [] kind = "date" -> DATE \o <<61, 48 + i>>
    [] kind = "originaldate" -> ORIGINALDATE \o <<61, 48 + i>>
    [] OTHER -> TITLE \o <<61, 48 + i>>

BlockBytes(isLast, type, data) ==
  <<(IF isLast THEN 128 ELSE 0) + type>> \o BigEndian(Len(data), 3) \o data

VorbisCommentData(kinds) ==
  LET entry(i) == LittleEndian(Len(CommentText(kinds[i], i)), 4)
                    \o CommentText(kinds[i], i)
  IN LittleEndian(1, 4) \o <<120>> \o LittleEndian(Len(kinds), 4)
       \o Concat([i \in 1..Len(kinds) |-> entry(i)])

PictureData ==
  BigEndian(3, 4) \o BigEndian(Len(ImagePng), 4) \o ImagePng \o BigEndian(0, 4)
    \o Zeros(16) \o BigEndian(2, 4) \o <<137, 80>>

\* STREAMINFO first; then the comments as the last block, or followed by a
\* PADDING block, or preceded by a PICTURE block.
FLACLayouts == {"last", "padded", "picture"}

FLACBytes(layout, kinds) ==
  fLaC \o BlockBytes(FALSE, 0, Zeros(34))
    \o (IF layout = "picture" THEN BlockBytes(FALSE, 6, PictureData) ELSE <<>>)
    \o BlockBytes(layout # "padded", 4, VorbisCommentData(kinds))
    \o (IF layout = "padded" THEN BlockBytes(TRUE, 1, Zeros(2)) ELSE <<>>)
    \o <<255, 248, 201, 24>>

WantedFLAC == {{"artist"}, {"artist", "year"}, {"artist", "artwork"}}

InitFLAC ==
  /\ \E layout \in FLACLayouts, kinds \in SeqsUpTo(CommentKinds, MaxComments) :
       file = FLACBytes(layout, kinds)
  /\ wantedTags \in WantedFLAC
  /\ uri = <<>>
  /\ reader = <<"FLACReader", "start">>
  /\ pc = "FLACReader.getMetadata"
  /\ Fresh

NextFLAC ==
  \/ FLACInitialize
  \/ FLACProcessBlock
  \/ FLACProcessComment
  \/ FLACEndOfComments
  \/ FLACReturn

SpecFLAC == InitFLAC /\ [][NextFLAC]_vars

-----------------------------------------------------------------------------
(* MP4Reader *)

ftyp == <<102, 116, 121, 112>>
moov == <<109, 111, 111, 118>>
udta == <<117, 100, 116, 97>>
meta == <<109, 101, 116, 97>>
ilst == <<105, 108, 115, 116>>
free == <<102, 114, 101, 101>>
mvhd == <<109, 118, 104, 100>>
mdat == <<109, 100, 97, 116>>
trkn == <<116, 114, 107, 110>>
covr == <<99, 111, 118, 114>>
c_alb == <<169, 97, 108, 98>>  \* "(c)alb"
c_ART == <<169, 65, 82, 84>>  \* "(c)ART"
c_nam == <<169, 110, 97, 109>>  \* "(c)nam"
c_day == <<169, 100, 97, 121>>  \* "(c)day"
M4A == <<77, 52, 65, 32>>
DATA == <<100, 97, 116, 97>>  \* "data"

UserDataAtomNames == {c_alb, c_ART, c_nam, trkn, c_day, covr}
ContainerAtoms == {udta, meta, ilst}

UDTAMetadataMap(type) ==
  CASE type = c_alb -> "album"
    [] type = c_ART -> "artist"
    [] type = c_nam -> "name"
    [] type = trkn -> "track"
    [] type = c_day -> "year"
    [] OTHER -> "artwork"

\* The decimal digits of a number that is not negative: `${n}`.
RECURSIVE NumberToString(_)
NumberToString(n) ==
  IF n < 10 THEN <<48 + n>> ELSE NumberToString(n \div 10) \o <<48 + (n % 10)>>

\* MP4Reader.initialize
initializeMP4(s, f) ==
  LET size == read(initDataFrom(s, f, 16, 0), 4)
      atomSize == bytesToInt(size.chunk, 8, TRUE)
      type == read(size.s, 4)
      brand == read(type.s, 4)
      minor == read(brand.s, 4)
      remainingAtomSize == atomSize - 16
      rest == skip(initDataFrom(minor.s, f, remainingAtomSize, minor.s.filePosition),
                   remainingAtomSize)
  IN IF bytesToString(type.chunk, 0) # ftyp
       THEN Throw(type.s, FileError(<<"Does not follow proper mp4 format.">>))
       ELSE [rest EXCEPT !.majorBrand = bytesToString(brand.chunk, 0),
                         !.minorVersion = bytesToInt(minor.chunk, 8, TRUE),
                         !.finished = FALSE]

\* MP4Reader.processAtomContainerHeader
processAtomContainerHeader(s) ==
  LET size == read(s, 4)
      type == read(size.s, 4)
      wide == read(type.s, 8)
      atomSize == bytesToInt(size.chunk, 8, TRUE)
      extended == bytesToInt(wide.chunk, 8, TRUE)
  IN IF atomSize = 1
       THEN [s |-> wide.s, isLast |-> extended = 0,
             type |-> bytesToString(type.chunk, 0), length |-> extended - 16]
       ELSE [s |-> type.s, isLast |-> atomSize = 0,
             type |-> bytesToString(type.chunk, 0), length |-> atomSize - 8]

\* MP4Reader.processAtomHeader
processAtomHeader(s, f) ==
  LET size == read(initDataFrom(s, f, 8, s.filePosition), 4)
      type == read(size.s, 4)
      wide == read(initDataFrom(type.s, f, 8, type.s.filePosition), 8)
      atomSize == bytesToInt(size.chunk, 8, TRUE)
      extended == bytesToInt(wide.chunk, 8, TRUE)
  IN IF atomSize = 1
       THEN [s |-> wide.s, isLast |-> extended = 0,
             type |-> bytesToString(type.chunk, 0), length |-> extended - 16]
       ELSE [s |-> type.s, isLast |-> atomSize = 0,
             type |-> bytesToString(type.chunk, 0), length |-> atomSize - 8]

\* MP4Reader.processItemDataAtom
processItemDataAtom(s, type, size) ==
  LET flags == read(skip(skip(skip(s, 4), 4), 1), 3)
      flag == bytesToInt(flags.chunk, 8, TRUE)
      r == read(skip(flags.s, 4), size - 16)
      value ==
        CASE type = trkn -> NumberToString(bytesToInt(r.chunk, 8, TRUE))
          [] type = covr ->
               DataPrefix \o (IF flag = 14 THEN ImagePng ELSE ImageJpeg)
                 \o Base64Infix \o bytesToBase64(r.chunk)
          [] OTHER -> bytesToString(r.chunk, 3)
  IN [r.s EXCEPT !.tags = SetTag(@, UDTAMetadataMap(type), Str(value))]

\* MP4Reader.processAtom, up to where processAtomContainer starts its loop
\* when the atom is `moov`, and to its end (lines 112-113) otherwise.
processAtom(s, f, wanted) ==
  LET h == processAtomHeader(s, f)
      s2 == initDataFrom(h.s, f, h.length, h.s.filePosition)
      skipped == skip(s2, h.length)
  IN IF h.isLast THEN [h.s EXCEPT !.finished = TRUE]
     ELSE IF h.type = moov
       THEN [s2 EXCEPT !.locals =
               [depth |-> 1,
                header |-> [isLast |-> h.isLast, type |-> h.type, length |-> h.length]]]
     ELSE [skipped EXCEPT !.finished = shouldFinishEarly(skipped.tags, wanted)]

\* One turn of the loop of the innermost processAtomContainer under way
\* (`depth` of them are): `break` returns to the loop of the caller, and from
\* the outermost to lines 112-113 of processAtom, the atom being `moov`.
processAtomContainer(s, wanted) ==
  LET h == processAtomContainerHeader(s)
      header == [isLast |-> h.isLast, type |-> h.type, length |-> h.length]
      depth == s.locals.depth
      body ==
        IF h.isLast \/ shouldFinishEarly(h.s.tags, wanted)
          THEN [h.s EXCEPT !.locals.depth = depth - 1,
                           !.finished = IF depth = 1 THEN TRUE ELSE @]
        ELSE IF h.type \in ContainerAtoms
          THEN [(IF h.type = meta THEN skip(h.s, 4) ELSE h.s)
                  EXCEPT !.locals.depth = depth + 1]
        ELSE IF h.type \in UserDataAtomNames
          THEN processItemDataAtom(h.s, h.type, h.length)
        ELSE skip(h.s, h.length)
  IN [body EXCEPT !.locals.header = header]

-----------------------------------------------------------------------------
(* MP4Reader.getMetadata, a step for each atom of the file and of `moov` *)

MP4Initialize ==
  /\ pc = "MP4Reader.getMetadata"
  /\ \E s \in {initializeMP4(Self, file)} :
        /\ Become(s)
        /\ IF HasThrown(s) THEN Reject(s)
           ELSE pc' = "MP4Reader.processAtom" /\ result' = result
  /\ UNCHANGED Inputs

MP4ProcessAtom ==
  /\ pc = "MP4Reader.processAtom"
  /\ ~finished
  /\ \E s \in {processAtom(Self, file, wantedTags)} :
        /\ Become(s)
        /\ pc' = IF s.locals = <<>> THEN pc ELSE "MP4Reader.processAtomContainer"
  /\ UNCHANGED <<result, Inputs>>

MP4ProcessAtomContainer ==
  /\ pc = "MP4Reader.processAtomContainer"
  /\ \E s \in {processAtomContainer(Self, wantedTags)} :
        /\ Become(s)
        /\ pc' = IF s.locals.depth = 0 THEN "MP4Reader.processAtom" ELSE pc
  /\ UNCHANGED <<result, Inputs>>

MP4Return ==
  /\ pc = "MP4Reader.processAtom"
  /\ finished
  /\ pc' = "returned"
  /\ result' = [format |-> <<majorBrand, " (", minorVersion, ")">>,
                metadata |-> formatMetadata(tags, wantedTags)]
  /\ UNCHANGED <<Fields, Inputs>>

\* The largest number of atoms of a drawn `ilst`.
MaxAtoms == 3

\* The atoms a drawn `ilst` is made of: annotation atoms, the text of the
\* i-th being the digit i, an atom of size 0 and an atom the reader skips.
AtomKinds == {"nam", "alb", "ART", "zero", "free"}

AtomBytes(type, data) == BigEndian(8 + Len(data), 4) \o type \o data

ItemBytes(type, payload) ==
  AtomBytes(type, BigEndian(16 + Len(payload), 4) \o DATA \o <<0, 0, 0, 1>>
                    \o Zeros(4) \o payload)

IlstAtomBytes(kind, i) ==
  CASE kind = "nam" -> ItemBytes(c_nam, <<48 + i>>)
    [] kind = "alb" -> ItemBytes(c_alb, <<48 + i>>)
    [] kind = "ART" -> ItemBytes(c_ART, <<48 + i>>)
    [] kind = "trkn8" -> ItemBytes(trkn, <<0, 0, 0, i, 0, 10, 0, 0>>)
    [] kind = "trkn4" -> ItemBytes(trkn, <<0, 0, 0, i>>)
    [] kind = "trkn2" -> ItemBytes(trkn, <<1, i>>)
    [] kind = "zero" -> Zeros(4) \o free
    [] kind = "short" -> BigEndian(4, 4) \o free
    [] kind = "wide" -> BigEndian(1, 4) \o free \o BigEndian(18, 8) \o Zeros(2)
    [] kind = "back" -> AtomBytes(free, <<>>) \o <<255, 255, 255, 248>> \o free
    [] OTHER -> AtomBytes(free, Zeros(2))

\* `ftyp`, then `moov` (mvhd, udta > meta > ilst) and `mdat`; before `moov`
\* nothing, or a `free` atom, or a `free` atom with an extended size.
MP4Layouts == {"plain", "free", "wide"}

MP4Bytes(layout, kinds) ==
  LET items == Concat([i \in 1..Len(kinds) |-> IlstAtomBytes(kinds[i], i)])
      metaAtom == AtomBytes(meta, Zeros(4) \o AtomBytes(ilst, items))
      moovAtom == AtomBytes(moov, AtomBytes(mvhd, Zeros(4))
                                    \o AtomBytes(udta, metaAtom))
  IN AtomBytes(ftyp, M4A \o BigEndian(512, 4) \o M4A)
       \o (CASE layout = "free" -> AtomBytes(free, Zeros(2))
             [] layout = "wide" -> BigEndian(1, 4) \o free \o BigEndian(18, 8)
                                     \o Zeros(2)
             [] OTHER -> <<>>)
       \o moovAtom \o AtomBytes(mdat, Zeros(4))

WantedMP4 == {{}, {"album"}, {"album", "artist"}}

InitMP4 ==
  /\ \E layout \in MP4Layouts, kinds \in SeqsUpTo(AtomKinds, MaxAtoms) :
       file = MP4Bytes(layout, kinds)
  /\ wantedTags \in WantedMP4
  /\ uri = <<>>
  /\ reader = <<"MP4Reader", "start">>
  /\ pc = "MP4Reader.getMetadata"
  /\ Fresh

NextMP4 ==
  \/ MP4Initialize
  \/ MP4ProcessAtom
  \/ MP4ProcessAtomContainer
  \/ MP4Return

SpecMP4 == InitMP4 /\ [][NextMP4]_vars

-----------------------------------------------------------------------------
(* ID3v1Reader *)

\* `str || undefined`
OrUndefined(str) == IF str = <<>> THEN Undefined ELSE Str(str)

\* The mutation of initialize: the "TAG" test left out.
initializeID3v1Unchecked(s, f) ==
  read(initDataFrom(s, f, 128, Len(f) - 128), 3).s

\* ID3v1Reader.initialize; getFileStat(uri).size is the length of the file.
initializeID3v1(s, f) ==
  LET r == read(initDataFrom(s, f, 128, Len(f) - 128), 3)
  IN IF bytesToString(r.chunk, 0) # TAG
       THEN Throw(r.s, FileError(<<"Not an ID3v1 tag.">>))
       ELSE r.s

\* ID3v1Reader.processData; `version` is "1" or "1.1".
processData(s) ==
  LET name == read(s, 30)
      artist == read(name.s, 30)
      album == read(artist.s, 30)
      year == read(album.s, 4)
      comment == read(year.s, 30)
      isV11 == Len(comment.chunk) >= 30 /\ comment.chunk[29] = 0
                 /\ comment.chunk[30] # 0
      t1 == SetTag(s.tags, "name", OrUndefined(bytesToString(name.chunk, 0)))
      t2 == SetTag(t1, "artist", OrUndefined(bytesToString(artist.chunk, 0)))
      t3 == SetTag(t2, "album", OrUndefined(bytesToString(album.chunk, 0)))
      t4 == SetTag(t3, "year", OrUndefined(bytesToString(year.chunk, 0)))
      t5 == SetTag(t4, "track",
                   IF isV11 THEN Str(NumberToString(comment.chunk[30]))
                   ELSE Undefined)
  IN [comment.s EXCEPT !.version = IF isV11 THEN <<49, 46, 49>> ELSE <<49>>,
                       !.tags = t5]

\* ID3v1Reader.getMetadata
ID3v1GetMetadata ==
  /\ pc = "ID3v1Reader.getMetadata"
  /\ \E s0 \in {initializeID3v1(Self, file)} :
       \E s \in {IF HasThrown(s0) THEN s0 ELSE processData(s0)} :
         /\ Become(s)
         /\ IF HasThrown(s) THEN Reject(s)
            ELSE /\ pc' = "returned"
                 /\ result' = [format |-> <<"ID3v", s.version>>,
                               metadata |-> formatMetadata(s.tags, wantedTags)]
  /\ UNCHANGED Inputs

-----------------------------------------------------------------------------
(* The dispatch: getAudioMetadata and readMP3Metadata *)

flac == <<102, 108, 97, 99>>
mp3 == <<109, 112, 51>>

Backtick == <<96>>

\* The mutation of Extension: what follows the first '.'.
ExtensionAfterFirstDot(u) ==
  LET parts == Split(u, 46) IN IF Len(parts) >= 2 THEN parts[2] ELSE parts[1]

\* uri.split('.').at(-1)
Extension(u) == LET parts == Split(u, 46) IN parts[Len(parts)]

\* The mutation of readMP3Metadata's choice: an ID3v1 trailer is looked for
\* first.
selectReaderTrailerFirst(start, tail) ==
  IF Len(tail) >= 13 /\ SubSeq(tail, 11, 13) = TAG THEN <<"ID3v1Reader", "start">>
  ELSE IF bytesToString(start, 0) = ID3 THEN <<"ID3v2Reader", "start">>
  ELSE IF bytesToString(SubSeq(tail, 129, Min(131, Len(tail))), 0) = DI3
    THEN <<"ID3v2Reader", "eof">>
  ELSE IF bytesToString(SubSeq(tail, 1, Min(3, Len(tail))), 0) = DI3
    THEN <<"ID3v2Reader", "pre-v1">>
  ELSE <<"ID3v1Reader", "start">>

\* The reader readMP3Metadata constructs (lines 21-33), from the first 3
\* bytes of the file and its last 138.
selectReader(start, tail) ==
  IF bytesToString(start, 0) = ID3 THEN <<"ID3v2Reader", "start">>
  ELSE IF bytesToString(SubSeq(tail, 129, Min(131, Len(tail))), 0) = DI3
    THEN <<"ID3v2Reader", "eof">>
  ELSE IF bytesToString(SubSeq(tail, 1, Min(3, Len(tail))), 0) = DI3
    THEN <<"ID3v2Reader", "pre-v1">>
  ELSE <<"ID3v1Reader", "start">>

\* getAudioMetadata, lines 15-24: the reader is chosen by the extension.
GetAudioMetadata ==
  /\ pc = "getAudioMetadata"
  /\ CASE Extension(uri) = flac ->
            /\ pc' = "FLACReader.getMetadata"
            /\ reader' = <<"FLACReader", "start">>
            /\ result' = result
       [] Extension(uri) = mp3 ->
            /\ pc' = "readMP3Metadata"
            /\ UNCHANGED <<reader, result>>
       [] OTHER ->
            /\ pc' = "rejected"
            /\ result' = FileError(<<Backtick, ".", Extension(uri), Backtick,
                                     " files are currently not supported.">>)
            /\ reader' = reader
  /\ UNCHANGED <<Fields, uri, file, wantedTags, suspended, interleaved>>

\* readMP3Metadata, lines 13-33: the probes, each a read of the provider.
\* The second probe is made only when the first finds no "ID3".
ReadMP3Metadata ==
  /\ pc = "readMP3Metadata"
  /\ LET start == base64ToBuffer(ProviderRead(file, 3, 0))
         tail == base64ToBuffer(ProviderRead(file, 138, Len(file) - 138))
         isID3 == bytesToString(start, 0) = ID3
     IN /\ reader' = selectReader(start, IF isID3 THEN <<>> ELSE tail)
        /\ reads' = IF isID3 THEN Append(reads, <<3, 0>>)
                    ELSE reads \o <<<<3, 0>>, <<138, Len(file) - 138>>>>
        /\ pc' = IF reader'[1] = "ID3v2Reader" THEN "ID3v2Reader.getMetadata"
                 ELSE "ID3v1Reader.getMetadata"
  /\ UNCHANGED <<buffer, cursor, filePosition, dataSize, finished, tags, frames,
                 version, unsynch, xHeader, majorBrand, minorVersion, locals>>
  /\ UNCHANGED <<uri, file, wantedTags, result, suspended, interleaved>>

\* `return { fileType: extension, ...data }` (line 26) around the record a
\* reader returned; readMP3Metadata has put the same fileType, 'mp3', in it.
Respond ==
  /\ pc = "returned"
  /\ pc' = "resolved"
  /\ result' = [fileType |-> Extension(uri), format |-> result.format,
                metadata |-> result.metadata]
  /\ UNCHANGED <<Fields, Inputs>>

-----------------------------------------------------------------------------
(* The whole extraction: getAudioMetadata on a URI and the file behind it *)

\* The end of an .mp3 file: MPEG frame bytes.
Audio(n) == AudioBytes \o Zeros(n)

Pad(str, n) == str \o Zeros(n - Len(str))

\* An ID3v1 tag (title "N", artist "A", album "B", year "2024"), or an
\* ID3v1.1 tag with track 7.
ID3v1Bytes(withTrack) ==
  TAG \o Pad(<<78>>, 30) \o Pad(<<65>>, 30) \o Pad(<<66>>, 30) \o <<50, 48, 50, 52>>
    \o (IF withTrack THEN Zeros(28) \o <<0, 7>> ELSE Pad(<<99>>, 30)) \o <<0>>

\* An ID3v2.4 tag with a footer: header, frames, footer ("3DI").
ID3v2FooterTagBytes(kinds) ==
  LET body == Concat([i \in 1..Len(kinds) |-> FrameBytes(4, kinds[i], i)])
  IN ID3 \o <<4, 0, 16>> \o Synchsafe(Len(body)) \o body
       \o DI3 \o <<4, 0, 16>> \o Synchsafe(Len(body))

FileKinds == {"v2", "v2+v1", "v1", "v1.1", "none", "eof", "pre-v1", "flac"}

FileBytes(kind) ==
  CASE kind = "v2" -> ID3v2TagBytes(3, <<"album", "year">>, 2) \o Audio(0)
    [] kind = "v2+v1" ->
         ID3v2TagBytes(3, <<"album">>, 0) \o Audio(8) \o ID3v1Bytes(FALSE)
    [] kind = "v1" -> Audio(20) \o ID3v1Bytes(FALSE)
    [] kind = "v1.1" -> Audio(20) \o ID3v1Bytes(TRUE)
    [] kind = "none" -> Audio(140)
    [] kind = "eof" -> Audio(120) \o ID3v2FooterTagBytes(<<"album">>)
    [] kind = "pre-v1" ->
         Audio(20) \o ID3v2FooterTagBytes(<<"album">>) \o ID3v1Bytes(FALSE)
    [] OTHER -> FLACBytes("last", <<"artist", "date">>) \o Zeros(80)

URIs ==
  {
    <<97, 46, 109, 112, 51>>,  \* "a.mp3"
    <<97, 46, 77, 80, 51>>,  \* "a.MP3"
    <<97, 46, 102, 108, 97, 99>>,  \* "a.flac"
    <<97, 46, 70, 108, 97, 99>>,  \* "a.Flac"
    <<97, 46, 111, 103, 103>>,  \* "a.ogg"
    <<97, 46, 109, 52, 97>>,  \* "a.m4a"
    <<97, 46, 98, 46, 109, 112, 51>>,  \* "a.b.mp3"
    <<97, 46, 109, 112, 51, 46, 111, 103, 103>>   \* "a.mp3.ogg"
  }

Wanted == {{"album"}, {"album", "year"}, {"artist", "track"}}

Init ==
  /\ uri \in URIs
  /\ \E kind \in FileKinds : file = FileBytes(kind)
  /\ wantedTags \in Wanted
  /\ reader = <<>>
  /\ pc = "getAudioMetadata"
  /\ Fresh

Next ==
  \/ GetAudioMetadata
  \/ ReadMP3Metadata
  \/ ID3v2GetMetadata
  \/ ID3v2ProcessFrame
  \/ ID3v2Return
  \/ ID3v1GetMetadata
  \/ FLACInitialize
  \/ FLACProcessBlock
  \/ FLACProcessComment
  \/ FLACEndOfComments
  \/ FLACReturn
  \/ Respond

Spec == Init /\ [][Next]_vars

-----------------------------------------------------------------------------
(* formatMetadata on its own: one tag of every raw text *)

\* The longest raw text drawn.
MaxLen == 5

\* '-', '.', '/', '0', '1'
RawUnits == {45, 46, 47, 48, 49}

FormatMetadata ==
  /\ pc = "FileReader.formatMetadata"
  /\ pc' = "returned"
  /\ result' = [metadata |-> formatMetadata(tags, wantedTags)]
  /\ UNCHANGED <<Fields, Inputs>>

InitFormat ==
  /\ \E key \in {"track", "year"}, raw \in SeqsUpTo(RawUnits, MaxLen) :
       /\ wantedTags = {key}
       /\ tags = [k \in {key} |-> Str(raw)]
  /\ uri = <<>>
  /\ file = <<>>
  /\ reader = <<>>
  /\ pc = "FileReader.formatMetadata"
  /\ buffer = <<>>
  /\ cursor = 0
  /\ filePosition = 0
  /\ dataSize = 0
  /\ finished = TRUE
  /\ frames = <<>>
  /\ version = 0
  /\ unsynch = FALSE
  /\ xHeader = FALSE
  /\ majorBrand = <<>>
  /\ minorVersion = 0
  /\ locals = <<>>
  /\ reads = <<>>
  /\ result = Undefined
  /\ suspended = <<>>
  /\ interleaved = FALSE

NextFormat == FormatMetadata

SpecFormat == InitFormat /\ [][NextFormat]_vars

-----------------------------------------------------------------------------
(* Pictures: the ID3v2 and the FLAC reader on files that carry pictures *)

\* The largest number of pictures (and of frames) of a drawn file.
MaxPictures == 2

\* The picture types drawn: Other, Cover (front), and Cover (back), which
\* the readers ignore.
PictureTypes == {0, 3, 4}

\* The frames of a drawn tag: a text frame, a picture of each type, and a
\* Cover (back) with the frame-level unsynchronisation of ID3v2.4.
PictureKinds == {"album", "pic0", "pic3", "pic4", "pic4u"}

PictureTypeOf(kind) ==
  CASE kind = "pic0" -> 0
    [] kind = "pic3" -> 3
    [] OTHER -> 4

\* The i-th frame of a tag.  The image of a picture ends with the digit i;
\* an unsynchronised one holds 0xFF followed by the inserted 0x00.
PictureFrameBytes(ver, kind, i) ==
  LET unsync == ver = 4 /\ kind = "pic4u"
      image == IF unsync THEN <<255, 0, 48 + i>> ELSE <<137, 48 + i>>
      payload == IF ver = 2
                   THEN <<0>> \o PNG \o <<PictureTypeOf(kind), 0>> \o image
                   ELSE <<0>> \o ImagePng \o <<0, PictureTypeOf(kind), 0>> \o image
  IN IF kind = "album" THEN FrameBytes(ver, kind, i)
     ELSE CASE ver = 2 -> PIC \o BigEndian(Len(payload), 3) \o payload
            [] ver = 3 -> APIC \o BigEndian(Len(payload), 4) \o <<0, 0>> \o payload
            [] OTHER -> APIC \o Synchsafe(Len(payload))
                          \o <<0, IF unsync THEN 2 ELSE 0>> \o payload

ID3v2PictureTagBytes(ver, kinds) ==
  LET body == Concat([i \in 1..Len(kinds) |-> PictureFrameBytes(ver, kinds[i], i)])
                \o Zeros(2)
  IN ID3 \o <<ver, 0, 0>> \o Synchsafe(Len(body)) \o body

PictureBlockData(type, i) ==
  BigEndian(type, 4) \o BigEndian(Len(ImagePng), 4) \o ImagePng \o BigEndian(0, 4)
    \o Zeros(16) \o BigEndian(2, 4) \o <<137, 48 + i>>

\* STREAMINFO, a PICTURE block for each drawn type, the comments last.
FLACPictureBytes(types) ==
  fLaC \o BlockBytes(FALSE, 0, Zeros(34))
    \o Concat([i \in 1..Len(types) |-> BlockBytes(FALSE, 6, PictureBlockData(types[i], i))])
    \o BlockBytes(TRUE, 4, VorbisCommentData(<<"artist">>))
    \o <<255, 248, 201, 24>>

WantedPicture == {{"artwork"}, {"album", "artwork"}, {"album"}}

InitPicture ==
  /\ \/ /\ \E ver \in {2, 3, 4}, kinds \in SeqsUpTo(PictureKinds, MaxPictures) :
             file = ID3v2PictureTagBytes(ver, kinds) \o AudioBytes
        /\ reader = <<"ID3v2Reader", "start">>
        /\ pc = "ID3v2Reader.getMetadata"
     \/ /\ \E types \in SeqsUpTo(PictureTypes, MaxPictures) :
             file = FLACPictureBytes(types)
        /\ reader = <<"FLACReader", "start">>
        /\ pc = "FLACReader.getMetadata"
  /\ wantedTags \in WantedPicture
  /\ uri = <<>>
  /\ Fresh

NextPicture == NextID3v2 \/ NextFLAC

SpecPicture == InitPicture /\ [][NextPicture]_vars

-----------------------------------------------------------------------------
(* Headers: the ID3v2 reader on tags of every version byte and flag *)

\* The largest number of frames of a drawn tag.
MaxFlaggedFrames == 2

\* The version bytes drawn: those of ID3v2.2 to ID3v2.4, those below and
\* one above.
VersionBytes == {0, 1, 2, 3, 4, 5}

\* The frames drawn: a text frame of a key that can be requested or of one
\* that cannot, with the frame's unsynchronisation flag unset or set ("+u").
FlaggedKinds == {"album", "album+u", "other", "other+u"}

FlaggedFrameBytes(ver, kind, i) ==
  LET text == IF kind \in {"album", "album+u"} THEN "album" ELSE "other"
      flags == <<0, IF kind \in {"album+u", "other+u"} THEN 2 ELSE 0>>
      payload == <<0, 48 + i>>
  IN CASE ver = 2 -> FrameBytes(ver, text, i)
       [] ver = 3 -> FrameIdOf(ver, text) \o BigEndian(Len(payload), 4)
                       \o flags \o payload
       [] OTHER -> FrameIdOf(ver, text) \o Synchsafe(Len(payload))
                       \o flags \o payload

\* A tag whose header has the unsynchronisation flag (bit 7) set or not.
FlaggedTagBytes(ver, tagUnsynch, kinds) ==
  LET body == Concat([i \in 1..Len(kinds) |-> FlaggedFrameBytes(ver, kinds[i], i)])
                \o Zeros(2)
  IN ID3 \o <<ver, 0, IF tagUnsynch THEN 128 ELSE 0>> \o Synchsafe(Len(body)) \o body

WantedHeader == {{"album"}, {"album", "artist"}}

InitHeader ==
  /\ \E ver \in VersionBytes, tagUnsynch \in BOOLEAN,
        kinds \in SeqsUpTo(FlaggedKinds, MaxFlaggedFrames) :
       file = FlaggedTagBytes(ver, tagUnsynch, kinds) \o AudioBytes
  /\ wantedTags \in WantedHeader
  /\ uri = <<>>
  /\ reader = <<"ID3v2Reader", "start">>
  /\ pc = "ID3v2Reader.getMetadata"
  /\ Fresh

NextHeader == NextID3v2

SpecHeader == InitHeader /\ [][NextHeader]_vars

-----------------------------------------------------------------------------
(* FileReader.unsynchBuffer on its own: every window, offset and length *)

\* The longest window drawn.
MaxWindow == 5

\* The bytes of a drawn window: 0xFF, the 0x00 that may follow it, another.
WindowBytes == {0, 1, 255}

\* One call unsynchBuffer(offset, length) with the region inside the window.
\* The window before the call and the arguments are kept in `locals`, the
\* returned number in `result`.
UnsynchBuffer ==
  /\ pc = "FileReader.unsynchBuffer"
  /\ \E offset \in 0..Len(buffer), length \in 0..Len(buffer) :
       /\ offset + length <= Len(buffer)
       /\ \E u \in {unsynchBuffer(Self, offset, length)} :
            /\ Become([u.s EXCEPT !.locals =
                         [offset |-> offset, length |-> length, before |-> buffer]])
            /\ result' = u.value
  /\ pc' = "FileReader.unsynchBuffer.returned"
  /\ UNCHANGED Inputs

InitUnsynch ==
  /\ buffer \in SeqsUpTo(WindowBytes, MaxWindow)
  /\ cursor \in {0, Len(buffer)}
  /\ file = <<>>
  /\ wantedTags = {}
  /\ uri = <<>>
  /\ reader = <<"FileReader", "start">>
  /\ pc = "FileReader.unsynchBuffer"
  /\ filePosition = 0
  /\ dataSize = Len(buffer)
  /\ finished = FALSE
  /\ tags = <<>>
  /\ frames = <<>>
  /\ version = 0
  /\ unsynch = FALSE
  /\ xHeader = FALSE
  /\ majorBrand = <<>>
  /\ minorVersion = 0
  /\ locals = <<>>
  /\ reads = <<>>
  /\ result = Undefined
  /\ suspended = <<>>
  /\ interleaved = FALSE

NextUnsynch == UnsynchBuffer

SpecUnsynch == InitUnsynch /\ [][NextUnsynch]_vars

-----------------------------------------------------------------------------
(* Truncated files: the ID3v2 reader on files cut short *)

\* The first n bytes of a file.
Truncate(f, n) == SubSeq(f, 1, Min(n, Len(f)))

\* A file that starts with "ID3" (what readMP3Metadata hands to the ID3v2
\* reader), whole or cut anywhere after that.
InitTruncated ==
  /\ \E ver \in {3, 4}, tagUnsynch \in BOOLEAN,
        kinds \in SeqsUpTo(FlaggedKinds, MaxFlaggedFrames) :
       LET whole == FlaggedTagBytes(ver, tagUnsynch, kinds) \o AudioBytes
       IN \E n \in 3..Len(whole) : file = Truncate(whole, n)
  /\ wantedTags \in WantedHeader
  /\ uri = <<>>
  /\ reader = <<"ID3v2Reader", "start">>
  /\ pc = "ID3v2Reader.getMetadata"
  /\ Fresh

NextTruncated == NextID3v2

SpecTruncated == InitTruncated /\ [][NextTruncated]_vars

-----------------------------------------------------------------------------
(* Buffer: the static conversions on their own *)

\* The longest byte sequence handed to bytesToInt with 8 bits per byte, and
\* with 7 bits per byte (a synchsafe integer of ID3v2 has four bytes).
MaxBytes == 8
MaxSynchsafeBytes == 4

\* The longest byte sequence handed to bytesToString.
MaxText == 4

\* The bytes of a drawn integer: with the top bit clear and with it set.
IntBytes == {0, 1, 128}

\* The bytes of a drawn text: NUL, line feed, 'A', and those of a byte-order
\* mark.
TextBytes == {0, 10, 65, 254, 255}

\* Buffer.bytesToInt(bytes, bitsUsed, bigEndian) on the drawn bytes.
BytesToInt ==
  /\ pc = "Buffer.bytesToInt"
  /\ result' = bytesToInt(buffer, locals.bitsUsed, locals.bigEndian)
  /\ pc' = "Buffer.bytesToInt.returned"
  /\ UNCHANGED <<Fields, Inputs>>

\* Buffer.bytesToString(bytes, encoding) on the drawn bytes.
BytesToString ==
  /\ pc = "Buffer.bytesToString"
  /\ result' = bytesToString(buffer, locals.encoding)
  /\ pc' = "Buffer.bytesToString.returned"
  /\ UNCHANGED <<Fields, Inputs>>

InitBuffer ==
  /\ \/ /\ pc = "Buffer.bytesToInt"
        /\ buffer \in SeqsUpTo(IntBytes, MaxBytes) \ {<<>>}
        /\ \E bigEndian \in BOOLEAN :
             locals = [bitsUsed |-> 8, bigEndian |-> bigEndian]
     \/ /\ pc = "Buffer.bytesToInt"
        /\ buffer \in SeqsUpTo(IntBytes, MaxSynchsafeBytes) \ {<<>>}
        /\ locals = [bitsUsed |-> 7, bigEndian |-> TRUE]
     \/ /\ pc = "Buffer.bytesToString"
        /\ buffer \in SeqsUpTo(TextBytes, MaxText)
        /\ \E encoding \in 0..3 : locals = [encoding |-> encoding]
  /\ cursor = 0
  /\ file = <<>>
  /\ wantedTags = {}
  /\ uri = <<>>
  /\ reader = <<"Buffer", "start">>
  /\ filePosition = 0
  /\ dataSize = 0
  /\ finished = FALSE
  /\ tags = <<>>
  /\ frames = <<>>
  /\ version = 0
  /\ unsynch = FALSE
  /\ xHeader = FALSE
  /\ majorBrand = <<>>
  /\ minorVersion = 0
  /\ reads = <<>>
  /\ result = Undefined
  /\ suspended = <<>>
  /\ interleaved = FALSE

NextBuffer == BytesToInt \/ BytesToString

SpecBuffer == InitBuffer /\ [][NextBuffer]_vars

-----------------------------------------------------------------------------
(* Two reader instances: FLAC readers over the files of two URIs, run by    *)
(* one event loop.  The variables hold the instance that runs; the other   *)
(* is kept in `suspended` while it awaits the file provider.  A method     *)
(* runs without interruption from one await to the next, and between two   *)
(* awaits of one step an instance touches nothing but its own fields.      *)

\* The largest number of comments of the file of an instance of a pair.
MaxPairComments == 1

PairCommentKinds == {"artist", "bare", "date"}

PairFiles ==
  {FLACBytes(layout, kinds) :
     layout \in FLACLayouts, kinds \in SeqsUpTo(PairCommentKinds, MaxPairComments)}

WantedPair == {{"artist"}, {"artist", "year"}}

UriA == <<97, 46>> \o flac  \* "a.flac"
UriB == <<98, 46>> \o flac  \* "b.flac"

\* The fields `new FLACReader(uri, options)` starts with.
FreshFields ==
  [buffer |-> <<>>, cursor |-> 0, filePosition |-> 0, dataSize |-> 0,
   finished |-> FALSE, tags |-> <<>>, frames |-> <<>>, version |-> 0,
   unsynch |-> FALSE, xHeader |-> FALSE, majorBrand |-> <<>>,
   minorVersion |-> 0, locals |-> <<>>, reads |-> <<>>, thrown |-> <<>>]

\* The instance that runs, as it is kept when the other takes over.
Instance ==
  [uri |-> uri, file |-> file, wantedTags |-> wantedTags, pc |-> pc,
   reader |-> reader, result |-> result, fields |-> Self]

\* The mutation of ownFields: `tags` is one object for every instance.
sharedTags(inst, running) == [inst.fields EXCEPT !.tags = running.fields.tags]

\* The class fields of FileReader are initialised for every instance
\* (`buffer = new Buffer()`, `tags = {}`, ...): what an instance finds when
\* it resumes is what it left, whatever ran meanwhile.
ownFields(inst, running) == inst.fields

Settled == {"returned", "rejected"}

\* Where an instance awaits: `await this.initialize()` and
\* `await this.processBlock()` of getMetadata; the loop over the comments of
\* a block has no await.  A settled instance leaves the loop to the other.
Awaiting ==
  \/ pc = "FLACReader.getMetadata"
  \/ pc = "FLACReader.processBlock" /\ ~finished
  \/ pc \in Settled

\* The event loop resumes the other instance.  The reads have interleaved
\* when both instances have read and both are to read again.
Yield ==
  /\ suspended # <<>>
  /\ Awaiting
  /\ suspended.pc \notin Settled
  /\ Become(ownFields(suspended, Instance))
  /\ uri' = suspended.uri
  /\ file' = suspended.file
  /\ wantedTags' = suspended.wantedTags
  /\ pc' = suspended.pc
  /\ reader' = suspended.reader
  /\ result' = suspended.result
  /\ suspended' = Instance
  /\ interleaved' = (\/ interleaved
                      \/ /\ pc \notin Settled
                         /\ reads # <<>>
                         /\ suspended.fields.reads # <<>>)

InitPair ==
  /\ uri = UriA
  /\ file \in PairFiles
  /\ wantedTags \in WantedPair
  /\ reader = <<"FLACReader", "start">>
  /\ pc = "FLACReader.getMetadata"
  /\ buffer = <<>>
  /\ cursor = 0
  /\ filePosition = 0
  /\ dataSize = 0
  /\ finished = FALSE
  /\ tags = <<>>
  /\ frames = <<>>
  /\ version = 0
  /\ unsynch = FALSE
  /\ xHeader = FALSE
  /\ majorBrand = <<>>
  /\ minorVersion = 0
  /\ locals = <<>>
  /\ reads = <<>>
  /\ result = Undefined
  /\ \E f \in PairFiles, wanted \in WantedPair :
       suspended = [uri |-> UriB, file |-> f, wantedTags |-> wanted,
                    pc |-> "FLACReader.getMetadata",
                    reader |-> <<"FLACReader", "start">>,
                    result |-> Undefined, fields |-> FreshFields]
  /\ interleaved = FALSE

NextPair == NextFLAC \/ Yield

SpecPair == InitPair /\ [][NextPair]_vars

-----------------------------------------------------------------------------
(* The album artist: the FLAC reader on files that name an album, an artist *)
(* or neither, and no album artist                                         *)

\* The largest number of comments of such a file.
MaxFallbackComments == 2

FallbackKinds == {"album", "artist", "title"}

\* The requested sets that hold `albumArtist`.
WantedFallback ==
  {{"albumArtist"}, {"album", "albumArtist"}, {"albumArtist", "artist"},
   {"album", "albumArtist", "artist"}}

InitFallback ==
  /\ \E layout \in {"last", "padded"},
        kinds \in SeqsUpTo(FallbackKinds, MaxFallbackComments) :
       file = FLACBytes(layout, kinds)
  /\ wantedTags \in WantedFallback
  /\ uri = <<>>
  /\ reader = <<"FLACReader", "start">>
  /\ pc = "FLACReader.getMetadata"
  /\ Fresh

NextFallback == NextFLAC

SpecFallback == InitFallback /\ [][NextFallback]_vars

-----------------------------------------------------------------------------
(* Frame sizes: the ID3v2 reader on frames of every size field *)

\* The largest number of frames of a tag drawn for its size fields.
MaxSizedFrames == 2

\* A requested text frame, a frame to skip, a frame to skip whose size (129)
\* needs more than 7 bits, and an ID3v2.3 frame to skip whose size field has
\* its top bit set (FF FF FF F6).
SizedKinds == {"album", "other", "long", "top"}

SizedFrameBytes(ver, kind, i) ==
  LET id == FrameIdOf(ver, IF kind = "album" THEN "album" ELSE "other")
      payload == IF kind = "long" THEN Zeros(129) ELSE <<0, 48 + i>>
  IN CASE ver = 2 -> id \o BigEndian(Len(payload), 3) \o payload
       [] ver = 3 /\ kind = "top" -> id \o <<255, 255, 255, 246>> \o <<0, 0>>
       [] ver = 3 -> id \o BigEndian(Len(payload), 4) \o <<0, 0>> \o payload
       [] OTHER -> id \o Synchsafe(Len(payload)) \o <<0, 0>> \o payload

SizedTagBytes(ver, kinds) ==
  LET body == Concat([i \in 1..Len(kinds) |-> SizedFrameBytes(ver, kinds[i], i)])
                \o Zeros(2)
  IN ID3 \o <<ver, 0, 0>> \o Synchsafe(Len(body)) \o body

WantedSized == {{"album"}, {"album", "artist"}}

InitFrameSize ==
  /\ \E ver \in {2, 3, 4}, kinds \in SeqsUpTo(SizedKinds, MaxSizedFrames) :
       file = SizedTagBytes(ver, kinds) \o AudioBytes
  /\ wantedTags \in WantedSized
  /\ uri = <<>>
  /\ reader = <<"ID3v2Reader", "start">>
  /\ pc = "ID3v2Reader.getMetadata"
  /\ Fresh

NextFrameSize == NextID3v2

SpecFrameSize == InitFrameSize /\ [][NextFrameSize]_vars

-----------------------------------------------------------------------------
(* Unsynchronised frames: the ID3v2 reader on tags and frames that carry   *)
(* FF 00                                                                   *)

\* The largest number of frames of such a tag.
MaxUnsynchFrames == 2

\* Text frames of two requested keys and a frame of none, with the
\* unsynchronisation bit of the frame set ("+u") or not; "+u0" has the bit
\* set and no data at all.
UnsynchKinds == {"album", "album+u", "artist", "artist+u", "artist+u0", "other+u"}

UnsynchIdOf(kind) ==
  CASE kind \in {"album", "album+u"} -> TALB
    [] kind \in {"artist", "artist+u", "artist+u0"} -> TPE1
    [] OTHER -> <<84, 67, 79, 78>>

\* The i-th frame: the ISO-8859-1 text FF 00 and a letter, which is two
\* characters once the 00 is dropped.  In a tag unsynchronised as a whole
\* the size is that of the data without the 00.
UnsynchFrameBytes(ver, tagUnsynch, kind, i) ==
  LET flags == <<0, IF kind \in {"album", "artist"} THEN 0 ELSE 2>>
      payload == IF kind = "artist+u0" THEN <<>> ELSE <<0, 255, 0, 64 + i>>
      size == IF tagUnsynch /\ payload # <<>> THEN Len(payload) - 1 ELSE Len(payload)
  IN UnsynchIdOf(kind)
       \o (IF ver = 4 THEN Synchsafe(size) ELSE BigEndian(size, 4))
       \o flags \o payload

UnsynchTagBytes(ver, tagUnsynch, kinds) ==
  LET body == Concat([i \in 1..Len(kinds) |->
                        UnsynchFrameBytes(ver, tagUnsynch, kinds[i], i)])
                \o Zeros(2)
  IN ID3 \o <<ver, 0, IF tagUnsynch THEN 128 ELSE 0>> \o Synchsafe(Len(body)) \o body

WantedUnsynch == {{"album"}, {"album", "artist"}}

InitFrameUnsynch ==
  /\ \E ver \in {3, 4}, tagUnsynch \in BOOLEAN,
        kinds \in SeqsUpTo(UnsynchKinds, MaxUnsynchFrames) :
       file = UnsynchTagBytes(ver, tagUnsynch, kinds) \o AudioBytes
  /\ wantedTags \in WantedUnsynch
  /\ uri = <<>>
  /\ reader = <<"ID3v2Reader", "start">>
  /\ pc = "ID3v2Reader.getMetadata"
  /\ Fresh

NextFrameUnsynch == NextID3v2

SpecFrameUnsynch == InitFrameUnsynch /\ [][NextFrameUnsynch]_vars

-----------------------------------------------------------------------------
(* Track numbers: the MP4 reader on `trkn` leaves *)

\* The largest number of atoms of an `ilst` drawn for its `trkn` leaves.
MaxTrackAtoms == 2

\* The i-th atom: a `trkn` leaf with the usual payload of 8 bytes (two
\* reserved, track i, of 10, two reserved), or a payload of 4 or of 2 bytes,
\* or an artist.
TrackKinds == {"trkn8", "trkn4", "trkn2", "ART"}

WantedTrack == {{"track"}, {"artist", "track"}}

InitTrack ==
  /\ \E layout \in {"plain", "free"}, kinds \in SeqsUpTo(TrackKinds, MaxTrackAtoms) :
       file = MP4Bytes(layout, kinds)
  /\ wantedTags \in WantedTrack
  /\ uri = <<>>
  /\ reader = <<"MP4Reader", "start">>
  /\ pc = "MP4Reader.getMetadata"
  /\ Fresh

NextTrack == NextMP4

SpecTrack == InitTrack /\ [][NextTrack]_vars

-----------------------------------------------------------------------------
(* Atom sizes: the MP4 reader on the size fields of the atoms of `ilst` *)

\* The largest number of atoms of an `ilst` drawn for its size fields.
MaxSizedAtoms == 2

\* The i-th atom: an artist, an atom the reader skips, one whose size field
\* (4) is less than its header, one with an extended size, and an empty
\* `free` atom followed by a header whose size bytes are FF FF FF F8.
SizedAtomKinds == {"ART", "free", "short", "wide", "back"}

WantedSizedAtoms == {{"artist"}, {"album", "artist"}}

InitAtomSize ==
  /\ \E layout \in {"plain", "free"},
        kinds \in SeqsUpTo(SizedAtomKinds, MaxSizedAtoms) :
       file = MP4Bytes(layout, kinds)
  /\ wantedTags \in WantedSizedAtoms
  /\ uri = <<>>
  /\ reader = <<"MP4Reader", "start">>
  /\ pc = "MP4Reader.getMetadata"
  /\ Fresh

NextAtomSize == NextMP4

SpecAtomSize == InitAtomSize /\ [][NextAtomSize]_vars

-----------------------------------------------------------------------------
(* Values with '=': the FLAC reader on comments whose value holds that sign *)

\* The largest number of comments of such a file.
MaxEqualsComments == 2

\* The i-th comment: ARTIST=i, ARTIST=i=i, DATE=i=, ARTIST= (an empty
\* value), ARTIST without '=', TITLE=i.
EqualsKinds == {"artist", "artist=", "date=", "artist0", "bare", "title"}

WantedEquals == {{"artist"}, {"artist", "year"}}

InitEquals ==
  /\ \E layout \in {"last", "padded"},
        kinds \in SeqsUpTo(EqualsKinds, MaxEqualsComments) :
       file = FLACBytes(layout, kinds)
  /\ wantedTags \in WantedEquals
  /\ uri = <<>>
  /\ reader = <<"FLACReader", "start">>
  /\ pc = "FLACReader.getMetadata"
  /\ Fresh

NextEquals == NextFLAC

SpecEquals == InitEquals /\ [][NextEquals]_vars

-----------------------------------------------------------------------------
(* Properties of the ID3v2 reader *)

\* The metadata keys the stored frames populate.
Populated(fs) == {FrameMetadataMap(fs[i][1]) : i \in 1..Len(fs)}

\* C1: the metadata map of a successful extraction has exactly the requested
\* keys: every requested key is present (possibly undefined) and no other.
C1_ExactlyRequestedKeys ==
  pc = "returned" => DOMAIN result.metadata = wantedTags

\* C8: in the ID3v2 reader a key that has a value keeps it: no later frame
\* changes the value that would be returned for it.
C8_WrittenAtMostOnce ==
  [][pc = "ID3v2Reader.processFrame" =>
       \A k \in Populated(frames) :
         MetadataOfFrames(frames')[k] = MetadataOfFrames(frames)[k]]_vars

\* C9: the frame that populates the last missing requested key sets
\* `finished`, and once `finished` is set no frame header is read and the
\* collected frames stay as they are.
C9_EarlyExit ==
  [][/\ (~(wantedTags \subseteq Populated(frames))
           /\ wantedTags \subseteq Populated(frames')) => finished'
     /\ (pc = "ID3v2Reader.processFrame" /\ finished) =>
          (frames' = frames /\ cursor' = cursor /\ reads' = reads)]_vars

\* C9 happens: the extraction returned with every requested key populated
\* while a whole frame (8 bytes at least) of the tag was still ahead.
C9_Witness ==
  /\ pc = "returned"
  /\ wantedTags # {}
  /\ wantedTags \subseteq Populated(frames)
  /\ cursor + 8 <= Len(buffer)

-----------------------------------------------------------------------------
(* Properties of the FLAC reader *)

\* C7: in the VORBIS_COMMENT block the first FIELD=value entry that maps to
\* a requested key fixes its value: a key that holds a value keeps it
\* whatever entry follows.
C7_FirstValueWins ==
  [][pc = "FLACReader.processVorbisCommentBlockData" =>
       \A k \in DOMAIN tags : tags[k] # Undefined => tags'[k] = tags[k]]_vars

\* C7 as it is stated: the first entry that maps to a requested key fixes
\* what is stored for it, be it an entry with no '=' (nothing to store).
C7_FirstEntryFixes ==
  [][pc = "FLACReader.processVorbisCommentBlockData" =>
       \A k \in DOMAIN tags : tags'[k] = tags[k]]_vars

\* C7 happens: DATE=1 then ORIGINALDATE=2 were both read and `year` holds
\* the "1" of the first.
C7_Witness ==
  /\ pc = "FLACReader.processVorbisCommentBlockData"
  /\ locals.i >= 2
  /\ "year" \in DOMAIN tags
  /\ tags["year"] = Str(<<49>>)
  /\ \E layout \in FLACLayouts, kinds \in SeqsUpTo(CommentKinds, MaxComments) :
       /\ Len(kinds) >= 2
       /\ kinds[1] = "date"
       /\ kinds[2] = "originaldate"
       /\ file = FLACBytes(layout, kinds)

-----------------------------------------------------------------------------
(* Properties of the MP4 reader *)

\* C10: a processAtomContainer loop inside `moov` is left only on an atom of
\* size 0 (the end of the window reads as one) or with every requested key
\* populated: never on the count of stored keys that were not requested
\* while a requested key is missing.
C10_StopsOnlyWhenSatisfied ==
  [][(pc = "MP4Reader.processAtomContainer" /\ locals'.depth < locals.depth) =>
       (locals'.header.isLast \/ wantedTags \subseteq DOMAIN tags')]_vars

-----------------------------------------------------------------------------
(* Properties of formatMetadata *)

\* C6: a returned `track` or `year` is a positive integer, or else the raw
\* text unchanged; never a negative or a fractional number.
C6_IntegerOrRaw ==
  pc = "returned" =>
    \A k \in DOMAIN result.metadata :
      IF result.metadata[k].t = "number"
        THEN /\ ~result.metadata[k].neg
             /\ result.metadata[k].k = 0
             /\ result.metadata[k].m > 0
        ELSE result.metadata[k] = tags[k]

-----------------------------------------------------------------------------
(* Properties of the dispatch *)

\* What follows the last '.' of a URI (the URI itself when it has none).
FinalExtension(u) ==
  LET dots == {i \in 1..Len(u) : u[i] = 46}
  IN IF dots = {} THEN u
     ELSE SubSeq(u, (CHOOSE i \in dots : \A j \in dots : j <= i) + 1, Len(u))

ToLowerCase(str) ==
  [i \in 1..Len(str) |-> IF str[i] >= 65 /\ str[i] <= 90 THEN str[i] + 32 ELSE str[i]]

Unsupported(extension) ==
  FileError(<<Backtick, ".", extension, Backtick,
              " files are currently not supported.">>)

\* The bytes [from, to) of the last 138 bytes of a file.
TailSlice(f, from, to) == SubSeq(f, Len(f) - 138 + from + 1, Len(f) - 138 + to)

\* C2: for an .mp3 file one reader is constructed, by priority: "ID3" at the
\* start (the ID3v2 reader at the start, whose format the result carries
\* even when a "TAG" trailer is there too), else "3DI" at bytes 128..131 of
\* the last 138 bytes, else "3DI" at their bytes 0..3, else the ID3v1 reader.
C2_ReaderPriority ==
  (FinalExtension(uri) = mp3 /\ pc \notin {"getAudioMetadata", "readMP3Metadata"}) =>
    /\ reader =
         IF SubSeq(file, 1, 3) = ID3 THEN <<"ID3v2Reader", "start">>
         ELSE IF TailSlice(file, 128, 131) = DI3 THEN <<"ID3v2Reader", "eof">>
         ELSE IF TailSlice(file, 0, 3) = DI3 THEN <<"ID3v2Reader", "pre-v1">>
         ELSE <<"ID3v1Reader", "start">>
    /\ (pc = "resolved" /\ SubSeq(file, 1, 3) = ID3) =>
         (result.format[1] = "ID3v2." /\ reads[2] = <<4, 6>>)

\* C2 happens: a file with "ID3" at its start and "TAG" 128 bytes before
\* its end resolved with an ID3v2 format.
C2_Witness ==
  /\ pc = "resolved"
  /\ SubSeq(file, 1, 3) = ID3
  /\ Len(file) >= 138
  /\ TailSlice(file, 10, 13) = TAG
  /\ result.format[1] = "ID3v2."

C4_CaseInsensitive ==
  ToLowerCase(FinalExtension(uri)) \in {flac, mp3} =>
    ~(pc = "rejected" /\ result = Unsupported(FinalExtension(uri)))

\* No "ID3" at the start, no "3DI" where a footer would be, no "TAG" 128
\* bytes before the end.
Tagless(f) ==
  /\ Len(f) >= 138
  /\ SubSeq(f, 1, 3) # ID3
  /\ TailSlice(f, 128, 131) # DI3
  /\ TailSlice(f, 0, 3) # DI3
  /\ TailSlice(f, 10, 13) # TAG

\* C5: the extraction of a tagless .mp3 file is rejected with the FileError
\* "Not an ID3v1 tag." once the three probes have been made, and returns
\* no metadata.
C5_TaglessRejected ==
  (/\ FinalExtension(uri) = mp3
   /\ Tagless(file)
   /\ pc \notin {"getAudioMetadata", "readMP3Metadata", "ID3v1Reader.getMetadata"}) =>
    /\ pc = "rejected"
    /\ result = FileError(<<"Not an ID3v1 tag.">>)
    /\ reads = <<<<3, 0>>, <<138, Len(file) - 138>>, <<128, Len(file) - 128>>>>

\* C5 happens: a tagless .mp3 file was rejected.
C5_Witness ==
  /\ pc = "rejected"
  /\ FinalExtension(uri) = mp3
  /\ Tagless(file)
  /\ result = FileError(<<"Not an ID3v1 tag.">>)

-----------------------------------------------------------------------------
(* Properties of the pictures *)

\* The frame the ID3v2 frame loop is about to read: the lengths of its
\* identifier and of its header, its identifier and its size.
IdLen == IF version = 2 THEN 3 ELSE 4
HeaderLen == IF version = 2 THEN 6 ELSE 10
FrameIdAhead == SubSeq(buffer, cursor + 1, cursor + IdLen)
FrameSizeAhead ==
  bytesToInt(SubSeq(buffer, cursor + IdLen + 1, cursor + 2 * IdLen),
             IF version = 4 THEN 7 ELSE 8, TRUE)

PictureAheadID3v2 ==
  /\ pc = "ID3v2Reader.processFrame"
  /\ ~finished
  /\ cursor + HeaderLen <= Len(buffer)
  /\ FrameIdAhead \in FrameTypesPicture

\* The picture-type field of the picture frame that starts at the cursor,
\* in the window `buf`: after the encoding byte and the image format (three
\* bytes in ID3v2.2, else a MIME type up to its NUL).
PictureTypeIn(buf) ==
  LET first == cursor + HeaderLen + 2
      nuls == {i \in first..Len(buf) : buf[i] = 0}
      nul == CHOOSE i \in nuls : \A j \in nuls : i <= j
  IN IF version = 2 THEN buf[first + 3] ELSE buf[nul + 1]

\* The block the FLAC block loop is about to read, as the file has it.
BlockTypeAhead == file[filePosition + 1] % 128
BlockLengthAhead ==
  bytesToInt(SubSeq(file, filePosition + 2, filePosition + 4), 8, TRUE)
PictureTypeAheadFLAC ==
  bytesToInt(SubSeq(file, filePosition + 5, filePosition + 8), 8, TRUE)

PictureAheadFLAC ==
  /\ pc = "FLACReader.processBlock"
  /\ ~finished
  /\ filePosition + 8 <= Len(file)
  /\ BlockTypeAhead = 6

ArtworkOfFrames(fs) ==
  IF \E i \in 1..Len(fs) : fs[i][1] = APIC
    THEN (CHOOSE v \in {fs[i] : i \in 1..Len(fs)} : v[1] = APIC)[2]
    ELSE Undefined

ArtworkOfTags(ts) == IF "artwork" \in DOMAIN ts THEN ts["artwork"] ELSE Undefined

\* C11: in the ID3v2 and the FLAC reader the artwork is set only by the
\* step over a picture of type 0 or 3; the step over a picture of any other
\* type leaves what was collected as it is and the cursor at the end of
\* that frame (what follows the cursor is what followed the frame) or of
\* that block (the window is the block and the cursor is at its end).
C11_PictureTypeFilter ==
  [][/\ (PictureAheadID3v2 /\ PictureTypeIn(buffer') \notin {0, 3}) =>
          /\ frames' = frames
          /\ SubSeq(buffer', cursor' + 1, Len(buffer'))
               = SubSeq(buffer, cursor + HeaderLen + FrameSizeAhead + 1, Len(buffer))
     /\ ArtworkOfFrames(frames') # ArtworkOfFrames(frames) =>
          (PictureAheadID3v2 /\ PictureTypeIn(buffer') \in {0, 3})
     /\ (PictureAheadFLAC /\ PictureTypeAheadFLAC \notin {0, 3}) =>
          /\ tags' = tags
          /\ cursor' = BlockLengthAhead
          /\ Len(buffer') = BlockLengthAhead
          /\ filePosition' = filePosition + 4 + BlockLengthAhead
     /\ ArtworkOfTags(tags') # ArtworkOfTags(tags) =>
          (PictureAheadFLAC /\ PictureTypeAheadFLAC \in {0, 3})]_vars

\* C11 happens in the ID3v2 reader: with the artwork requested, the frame
\* loop is past an unsynchronised Cover (back) that opens an ID3v2.4 tag,
\* and nothing was collected.
C11_Witness ==
  /\ pc = "ID3v2Reader.processFrame"
  /\ "artwork" \in wantedTags
  /\ \E kinds \in SeqsUpTo(PictureKinds, MaxPictures) :
       /\ kinds # <<>>
       /\ kinds[1] = "pic4u"
       /\ file = ID3v2PictureTagBytes(4, kinds) \o AudioBytes
       /\ cursor = 10 + Len(PictureFrameBytes(4, "pic4u", 1)) - 1
  /\ frames = <<>>

\* C11 happens in the FLAC reader: with the artwork requested, the block
\* loop is past a Cover (back) block and nothing was collected.
C11_WitnessFLAC ==
  /\ pc = "FLACReader.processBlock"
  /\ "artwork" \in wantedTags
  /\ \E types \in SeqsUpTo(PictureTypes, MaxPictures) :
       /\ types # <<>>
       /\ types[1] = 4
       /\ file = FLACPictureBytes(types)
       /\ filePosition = 4 + 38 + Len(BlockBytes(FALSE, 6, PictureBlockData(4, 1)))
  /\ cursor = Len(PictureBlockData(4, 1))
  /\ tags = <<>>

-----------------------------------------------------------------------------
(* Properties of the ID3v2 header and flags *)

NotSupported(ver) == FileError(<<"ID3v2.", ver, " is not supported.">>)

\* C12: a tag whose version byte is not 2, 3 or 4 is rejected with the
\* version-not-supported FileError, and no frame of it is read.
C12_OnlyVersions234 ==
  (pc # "ID3v2Reader.getMetadata" /\ file[4] \notin {2, 3, 4}) =>
    /\ pc = "rejected"
    /\ result = NotSupported(file[4])
    /\ frames = <<>>

UnsynchFlagUnset ==
  FileError(<<"All frames in tag should have unsynchronisation, however unsynchronisation flag in frame is unset.">>)

\* The frame loop of an ID3v2.4 tag with the tag-level unsynchronisation is
\* about to read the header of a frame (not the padding) whose own
\* unsynchronisation bit is unset.
UnflaggedFrameAhead ==
  /\ pc = "ID3v2Reader.processFrame"
  /\ ~finished
  /\ version = 4
  /\ unsynch
  /\ cursor + 10 <= Len(buffer)
  /\ buffer[cursor + 1] # 0
  /\ (buffer[cursor + 10] \div 2) % 2 = 0

\* C13: in an ID3v2.4 tag with the tag-level unsynchronisation, the step
\* onto a frame header whose unsynchronisation bit is unset rejects the
\* extraction with the FileError, requested frame or not, storing nothing;
\* a rejected extraction stays rejected, so that no metadata is returned.
C13_UnflaggedFrameIsFatal ==
  [][/\ UnflaggedFrameAhead =>
          /\ pc' = "rejected"
          /\ result' = UnsynchFlagUnset
          /\ frames' = frames
     /\ pc = "rejected" => pc' = "rejected" /\ result' = result]_vars

\* C13 happens: the extraction was rejected on the second frame of a tag,
\* a frame of a key that was not requested, after a first frame was stored.
C13_Witness ==
  /\ pc = "rejected"
  /\ result = UnsynchFlagUnset
  /\ Len(frames) = 1
  /\ \E kinds \in SeqsUpTo(FlaggedKinds, MaxFlaggedFrames) :
       /\ Len(kinds) = 2
       /\ kinds[2] = "other"
       /\ file = FlaggedTagBytes(4, TRUE, kinds) \o AudioBytes

-----------------------------------------------------------------------------
(* Properties of unsynchBuffer *)

\* C14: unsynchBuffer(offset, length), length 0 included, changes only the
\* bytes of [offset, offset + length): what was before offset and what was
\* from offset + length on is still there, the returned number is the new
\* length of the region, and the cursor is at offset.
C14_OnlyRegionChanges ==
  pc = "FileReader.unsynchBuffer.returned" =>
    LET before == locals.before
        offset == locals.offset
        length == locals.length
    IN /\ result = Len(buffer) - (Len(before) - length)
       /\ SubSeq(buffer, 1, offset) = SubSeq(before, 1, offset)
       /\ SubSeq(buffer, offset + result + 1, Len(buffer))
            = SubSeq(before, offset + length + 1, Len(before))
       /\ cursor = offset

\* Unsynchronisation: a zero byte is inserted after every 0xFF byte.
RECURSIVE Unsynchronise(_)
Unsynchronise(x) ==
  IF x = <<>> THEN <<>>
  ELSE (IF Head(x) = 255 THEN <<255, 0>> ELSE <<Head(x)>>) \o Unsynchronise(Tail(x))

\* The bytes the call left where the region was: between what was before
\* the region and what was after it.
RegionAfter ==
  SubSeq(buffer, locals.offset + 1,
         Len(buffer) - (Len(locals.before) - locals.offset - locals.length))

RegionBefore ==
  SubSeq(locals.before, locals.offset + 1, locals.offset + locals.length)

\* A region that is the unsynchronisation of some x: every 0xFF in it is
\* followed by 0x00.
IsUnsynchronised(region) ==
  \A i \in 1..Len(region) :
    region[i] = 255 => (i < Len(region) /\ region[i + 1] = 0)

-----------------------------------------------------------------------------
(* Properties of the window and its cursor *)

\* The largest N of the read(N) looked at.
MaxRead == 4

\* A read(N) made now advances the cursor by min(N, remaining) and returns
\* exactly the bytes it went over.
ReadAdvances ==
  \A N \in 0..MaxRead :
    LET r == read(Self, N)
        k == Min(N, Len(buffer) - cursor)
    IN /\ r.s.cursor = cursor + k
       /\ r.chunk = SubSeq(buffer, cursor + 1, cursor + k)

\* C16: whatever calls the reader has made on the window, the cursor is at
\* most the length of the window, and a read(N) advances it by exactly
\* min(N, remaining) and returns exactly those bytes.
C16_ReaderInvariant ==
  /\ cursor <= Len(buffer)
  /\ ReadAdvances

-----------------------------------------------------------------------------
(* Properties of the conversions of Buffer *)

\* The i-th byte of the drawn bytes counted from the least significant.
ByteFromLeast(i) ==
  IF locals.bigEndian THEN buffer[Len(buffer) - i + 1] ELSE buffer[i]

\* C17: with 8 bits per byte bytesToInt returns the unsigned value of the
\* bytes, big-endian or little-endian, for 1 to 8 bytes: it is not negative
\* and its base-256 digits are the bytes (a returned number is below 2^31,
\* so that its digits from the fifth on are 0).
C17_UnsignedValue ==
  (pc = "Buffer.bytesToInt.returned" /\ locals.bitsUsed = 8) =>
    /\ result >= 0
    /\ \A i \in 1..Len(buffer) :
         ByteFromLeast(i) = IF i <= 4 THEN (result \div Pow2(8 * (i - 1))) % 256
                            ELSE 0

\* The number whose base-128 digits, most significant first, are `digits`
\* (four at most).
RECURSIVE Base128(_)
Base128(digits) ==
  IF digits = <<>> THEN 0
  ELSE 128 * Base128(SubSeq(digits, 1, Len(digits) - 1)) + digits[Len(digits)]

CodeUnits(bytes, encoding) ==
  CASE encoding = 1 ->
         getDoubleBytes(SubSeq(bytes, 3, Len(bytes)),
                        Len(bytes) >= 2 /\ bytes[1] = 254 /\ bytes[2] = 255)
    [] encoding = 2 -> getDoubleBytes(bytes, TRUE)
    [] encoding = 3 -> Utf8Decode(bytes)
    [] OTHER -> bytes

\* The text before the first NUL.
BeforeFirstNul(units) ==
  LET nuls == {i \in 1..Len(units) : units[i] = 0}
  IN IF nuls = {} THEN units
     ELSE SubSeq(units, 1, (CHOOSE i \in nuls : \A j \in nuls : i <= j) - 1)

\* C19: in each of the four encodings bytesToString returns the text
\* before the first NUL, whatever follows that NUL.
C19_CutAtFirstNul ==
  pc = "Buffer.bytesToString.returned" =>
    result = BeforeFirstNul(CodeUnits(buffer, locals.encoding))

-----------------------------------------------------------------------------
(* Properties of the reads of the MP4 reader *)

\* C20: the step over a top-level atom other than `moov` asks the file
\* provider for the header of the atom only, 8 bytes at a time (twice with
\* an extended size), and leaves a window of a header, never of a payload.
C20_HeaderReadsOnly ==
  [][(pc = "MP4Reader.processAtom" /\ pc' = "MP4Reader.processAtom") =>
       /\ \A i \in (Len(reads) + 1)..Len(reads') : reads'[i][1] = 8
       /\ dataSize' = 8]_vars

-----------------------------------------------------------------------------
(* Properties of the FLAC block loop *)

\* The offset in the file of the header of the block after the first n
\* blocks: 4 for "fLaC", then 4 of header and the length of each block.
RECURSIVE BlockOffset(_, _)
BlockOffset(f, n) ==
  IF n = 0 THEN 4
  ELSE LET at == BlockOffset(f, n - 1)
       IN at + 4 + f[at + 2] * 65536 + f[at + 3] * 256 + f[at + 4]

\* The is-last bit of the header of the n-th block of the file.
BlockIsLast(f, n) == f[BlockOffset(f, n - 1) + 1] >= 128

\* The blocks whose header has been read: every block costs two reads, after
\* the one of "fLaC".
BlocksRead(rs) == Len(rs) \div 2

-----------------------------------------------------------------------------
(* Properties of two instances *)

\* The loop over the comments of a block, run to its end (lines 292-305)
\* and followed by lines 253-254 of processBlock.
RECURSIVE commentsAlone(_, _)
commentsAlone(s, wanted) ==
  IF s.locals.i >= s.locals.commentListLength
    THEN [s EXCEPT !.finished = s.locals.isLast \/ shouldFinishEarly(s.tags, wanted),
                   !.locals = <<>>]
    ELSE commentsAlone([processVorbisComment(s, wanted) EXCEPT !.locals.i = @ + 1],
                       wanted)

\* `while (!this.finished) await this.processBlock()` run to its end.
RECURSIVE blocksAlone(_, _, _)
blocksAlone(s, f, wanted) ==
  IF s.finished THEN s
  ELSE LET b == processBlock(s, f, wanted)
       IN IF HasThrown(b) THEN b
          ELSE blocksAlone(IF b.locals = <<>> THEN b ELSE commentsAlone(b, wanted),
                           f, wanted)

\* What FLACReader.getMetadata settles with when nothing else runs: the
\* record it returns or the error it throws.
getMetadataAlone(f, wanted) ==
  LET s0 == initializeFLAC(FreshFields, f)
      s == IF HasThrown(s0) THEN s0 ELSE blocksAlone(s0, f, wanted)
  IN IF HasThrown(s) THEN s.thrown
     ELSE [format |-> <<"FLAC">>, metadata |-> formatMetadata(s.tags, wanted)]

-----------------------------------------------------------------------------
(* Properties of the album artist *)

\* Whether the returned record has a value under the key.
Defined(metadata, key) == key \in DOMAIN metadata /\ metadata[key] # Undefined

\* C23: with `albumArtist` requested of a file that has no album-artist tag,
\* the returned albumArtist is the returned artist when the record defines
\* both `artist` and `album`, and is undefined otherwise.
C23_AlbumArtistFallback ==
  (pc = "returned" /\ "albumArtist" \in wantedTags) =>
     /\ "albumArtist" \in DOMAIN result.metadata
     /\ result.metadata["albumArtist"] =
          IF Defined(result.metadata, "artist") /\ Defined(result.metadata, "album")
            THEN result.metadata["artist"]
            ELSE Undefined

-----------------------------------------------------------------------------
(* Properties of the frame header *)

\* The size field of the frame that starts at the cursor.
SizeFieldAhead == SubSeq(buffer, cursor + IdLen + 1, cursor + 2 * IdLen)

\* The frame loop is about to read a whole frame header, of a frame that it
\* is to skip: one of no requested key.
SkippedFrameAhead ==
  /\ pc = "ID3v2Reader.processFrame"
  /\ ~finished
  /\ cursor >= 0
  /\ cursor + HeaderLen <= Len(buffer)
  /\ buffer[cursor + 1] # 0
  /\ FrameMetadataMap(FrameIdAhead) \notin wantedTags

\* C24: the header of a frame is 3 + 3 bytes in ID3v2.2 and 4 + 4 + 2 in
\* ID3v2.3 and ID3v2.4, with the size a plain big-endian number in 2.2 and
\* 2.3 and a synchsafe one in 2.4: the call that skips a frame leaves the
\* cursor the header and the size past the start of the frame.  (The size of
\* ID3v2.3 is compared as its first byte and its other three, to keep within
\* 32 bits.)
C24_FrameHeaderByVersion ==
  SkippedFrameAhead =>
    LET size == SizeFieldAhead
        delta == (processFrame(Self, wantedTags).cursor - cursor) - HeaderLen
    IN CASE version = 2 -> delta = size[1] * 65536 + size[2] * 256 + size[3]
         [] version = 3 ->
              /\ delta \div 16777216 = size[1]
              /\ delta % 16777216 = size[2] * 65536 + size[3] * 256 + size[4]
         [] OTHER ->
              delta = (size[1] % 128) * 2097152 + (size[2] % 128) * 16384
                        + (size[3] % 128) * 128 + (size[4] % 128)

-----------------------------------------------------------------------------
(* Properties of the unsynchronisation of tags and frames *)

\* The tag as the file has it: the header and the body the header sizes.
TagInFile ==
  SubSeq(file, 1, Min(Len(file),
                      10 + (file[7] * 2097152 + file[8] * 16384
                              + file[9] * 128 + file[10])))

\* The frame loop is about to read a requested text frame of an ID3v2.4 tag
\* that is not unsynchronised as a whole, with the frame's own bit set.
FlaggedTextFrameAhead ==
  /\ pc = "ID3v2Reader.processFrame"
  /\ ~finished
  /\ version = 4
  /\ ~unsynch
  /\ cursor + 10 <= Len(buffer)
  /\ FrameIdAhead \in FrameTypesText
  /\ FrameMetadataMap(FrameIdAhead) \in wantedTags
  /\ (buffer[cursor + 10] \div 2) % 2 = 1

\* C25: no byte of the tag is unsynchronised twice.  With the flag of the
\* tag set, the window from offset 10 on is transformed once, before the
\* frames are read, and no frame transforms anything; with only the bit of
\* a frame set, the data of that frame [cursor, cursor + frameSize) and
\* nothing else is transformed, and what is decoded and passed over is the
\* shortened data.
C25_UnsynchronisedOnce ==
  [][/\ (pc = "ID3v2Reader.getMetadata" /\ pc' = "ID3v2Reader.processFrame") =>
          buffer' = IF unsynch'
                      THEN SubSeq(TagInFile, 1, 10)
                             \o unsynchData(SubSeq(TagInFile, 11, Len(TagInFile)), 1)
                      ELSE TagInFile
     /\ (pc = "ID3v2Reader.processFrame" /\ pc' = "ID3v2Reader.processFrame") =>
          IF FlaggedTextFrameAhead
            THEN LET start == cursor + 10
                     size == FrameSizeAhead
                     shortened == unsynchData(slice(buffer, start, start + size), 1)
                     text == IF shortened = <<>> THEN <<>>
                             ELSE bytesToString(Tail(shortened), Head(shortened))
                 IN /\ buffer' = slice(buffer, 0, start) \o shortened
                                   \o slice(buffer, start + size, Len(buffer))
                    /\ cursor' = start + Len(shortened)
                    /\ frames' = SetFrame(frames, FrameIdAhead, Str(text))
            ELSE buffer' = buffer]_vars

-----------------------------------------------------------------------------
(* Properties of the track number of MP4 *)

\* digits * m + c, the decimal digits least significant first.
RECURSIVE MulAdd(_, _, _)
MulAdd(digits, m, c) ==
  IF digits = <<>>
    THEN (IF c = 0 THEN <<>> ELSE <<c % 10>> \o MulAdd(<<>>, m, c \div 10))
    ELSE LET v == Head(digits) * m + c
         IN <<v % 10>> \o MulAdd(Tail(digits), m, v \div 10)

\* The unsigned big-endian value of the bytes, as decimal digits least
\* significant first, of any length.
RECURSIVE DecimalOf(_)
DecimalOf(bytes) ==
  IF bytes = <<>> THEN <<>>
  ELSE MulAdd(DecimalOf(SubSeq(bytes, 1, Len(bytes) - 1)), 256, bytes[Len(bytes)])

\* The value as JavaScript prints it.
DecimalString(bytes) ==
  LET digits == DecimalOf(bytes)
      n == Len(digits)
  IN IF n = 0 THEN <<48>> ELSE [i \in 1..n |-> 48 + digits[n + 1 - i]]

\* The `trkn` leaf the container loop has just read, from its header on.
TrknLeafRead ==
  /\ pc = "MP4Reader.processAtomContainer"
  /\ cursor + 8 <= Len(buffer)
  /\ SubSeq(buffer, cursor + 5, cursor + 8) = trkn

\* C26: the track stored for a `trkn` leaf is the unsigned big-endian value
\* of the whole payload of the leaf, the bytes after the 16 of the item-data
\* header, whatever their number.
C26_TrackIsPayloadValue ==
  [][(TrknLeafRead /\ locals'.depth = locals.depth) =>
       LET size == buffer[cursor + 3] * 256 + buffer[cursor + 4]
           payload == SubSeq(buffer, cursor + 8 + 16 + 1, cursor + size)
       IN /\ "track" \in DOMAIN tags'
          /\ tags'["track"] = Str(DecimalString(payload))]_vars

-----------------------------------------------------------------------------
(* Properties of the stop of the frame loop *)

\* C27: the frame loop stops short of the padding and of the end of the tag
\* only with every requested key populated: the call that reads a frame and
\* sets `finished` with bytes of the tag still ahead leaves no requested
\* key without a frame.
C27_StopsOnlyWhenPopulated ==
  [][(/\ pc = "ID3v2Reader.processFrame"
      /\ pc' = "ID3v2Reader.processFrame"
      /\ ~finished
      /\ finished'
      /\ cursor < Len(buffer)
      /\ buffer[cursor + 1] # 0
      /\ cursor' < Len(buffer')) =>
       wantedTags \subseteq Populated(frames')]_vars

-----------------------------------------------------------------------------
(* Properties of the termination of the frame loop *)

\* C28: the loop `while (!this.finished) this.processFrame()` comes to an
\* end: a call of processFrame throws, or sets `finished`, or leaves the
\* cursor further than it found it, whatever the size the frame declares.
C28_FrameLoopAdvances ==
  (pc = "ID3v2Reader.processFrame" /\ ~finished) =>
    LET s == processFrame(Self, wantedTags)
    IN HasThrown(s) \/ s.finished \/ s.cursor > cursor

-----------------------------------------------------------------------------
(* Termination of the walk of the MP4 reader through `moov` *)

\* C29: every turn of the loop of processAtomContainer leaves the loop (an
\* atom of size 0, the end of the window, or every requested key found) or
\* leaves the cursor further than it found it, whatever the size field of
\* the atom says, so that the loop and its recursion come to an end.
C29_ContainerWalkAdvances ==
  pc = "MP4Reader.processAtomContainer" =>
    LET s == processAtomContainer(Self, wantedTags)
    IN s.locals.depth < locals.depth \/ s.cursor > cursor

-----------------------------------------------------------------------------
(* The value of a Vorbis comment *)

\* The entry the next turn of the loop reads: its text, the place of its
\* first '=' (0 when it has none), its field name and what follows the sign.
EntryAhead ==
  LET len == buffer[cursor + 1] + 256 * buffer[cursor + 2]
               + 65536 * buffer[cursor + 3] + 16777216 * buffer[cursor + 4]
  IN SubSeq(buffer, cursor + 5, cursor + 4 + len)

FirstEquals(text) ==
  IF \E i \in 1..Len(text) : text[i] = 61
    THEN CHOOSE i \in 1..Len(text) : text[i] = 61 /\ \A j \in 1..(i - 1) : text[j] # 61
    ELSE 0

FieldAhead == SubSeq(EntryAhead, 1, FirstEquals(EntryAhead) - 1)
ValueAhead == SubSeq(EntryAhead, FirstEquals(EntryAhead) + 1, Len(EntryAhead))

\* C30: an entry FIELD=value whose field is of a requested key that has no
\* value yet is stored with the whole text after its first '=', also when
\* that text holds '=' itself.
C30_ValueIsTextAfterFirstEquals ==
  [][(/\ pc = "FLACReader.processVorbisCommentBlockData"
      /\ locals.i < locals.commentListLength
      /\ FirstEquals(EntryAhead) > 0
      /\ VCFNMetadataMap(FieldAhead) \in wantedTags
      /\ keepsExistingValue(tags, VCFNMetadataMap(FieldAhead)))
       => /\ VCFNMetadataMap(FieldAhead) \in DOMAIN tags'
          /\ tags'[VCFNMetadataMap(FieldAhead)] = Str(ValueAhead)]_vars

====
